---- MODULE Spec2Model ----
(***************************************************************************)
(* Upgrade-path optimizer of raider_optimizer (src/app.py).                *)
(*                                                                         *)
(* One run of UpgradeOptimizer.find_optimal_path is modelled as a state    *)
(* machine: Init is the optimizer right after __init__, every pass of the  *)
(* main `while` loop is one action, and building the result record is the  *)
(* last action.                                                            *)
(*                                                                         *)
(* Averages are floats in the source (sum / len).  The model keeps the     *)
(* exact numerator: current_avg holds the sum of the item levels, and a    *)
(* comparison avg >= t is evaluated as sum >= t * len (AvgGE, AvgLT).      *)
(* Priorities are likewise kept multiplied by len.                         *)
(***************************************************************************)
EXTENDS Integers, Sequences, FiniteSets, TLC

(***************************************************************************)
(* Constant tables                                                         *)
(***************************************************************************)
SLOT_ORDER ==
  << "head", "neck", "shoulder", "back", "chest", "wrist", "hands", "waist",
     "legs", "feet", "finger1", "finger2", "trinket1", "trinket2",
     "mainhand", "offhand" >>

NON_CRAFTABLE_SLOTS == {"trinket1", "trinket2"}

UPGRADE_LEVELS ==
  << 681, 684, 688, 691, 694, 697, 701, 704, 707, 710, 713, 717, 720, 723,
     727, 730 >>

MAX_LEVEL_BY_DIFFICULTY == [Normal |-> 704, Heroic |-> 717, Mythic |-> 730]

OPTIMIZATION_STRATEGIES ==
  {"cost_efficient", "fastest", "balanced", "level_priority"}

CRAFT_COST_727 == <<0, 0, 90>>

SPECIAL_UPGRADE_COST_727 == <<0, 0, 30>>

\* the literal 727 of the source: the level a craft produces
CRAFT_LEVEL == 727

\* max_steps of find_optimal_path
max_steps == 100

\* cost of one ladder rung (`cost = 15`)
RUNG_COST == 15

\* number of trailing step_history entries is_cycling_detected looks at
HISTORY_WINDOW == 5

\* occurrences within the window that count as cycling
CYCLE_COUNT == 3

\* Python's None (an absent budget_limit, an absent next level)
None == -1

(***************************************************************************)
(* Bounds of the model                                                     *)
(***************************************************************************)
\* longest item list of the exhaustively enumerated rosters
MaxItems == 2

\* max_crafted_items ranges over 0..MaxCraftLimit
MaxCraftLimit == 2

\* longest 'bonuses' list of an enumerated gear item
MaxBonuses == 2

\* longest item list of the rosters compare_strategies is run on
MaxComparedItems == 1

(***************************************************************************)
(* Pure helpers                                                            *)
(***************************************************************************)
sum3(c) == c[1] + c[2] + c[3]

add3(a, b) == <<a[1] + b[1], a[2] + b[2], a[3] + b[3]>>

Min2(a, b) == IF a <= b THEN a ELSE b

\* sequencing: Block applied to the value of locals, which is computed once
\* (an assignment to a local followed by the code that reads it)
Then(locals, Block(_)) == CHOOSE out \in {Block(loc) : loc \in {locals}} : TRUE

MinOf(S) == CHOOSE i \in S : \A j \in S : i <= j

MaxOf(S) == CHOOSE i \in S : \A j \in S : j <= i

RECURSIVE SumLevels(_)
SumLevels(its) ==
  IF its = <<>> THEN 0 ELSE Head(its).item_level + SumLevels(Tail(its))

\* mutant of AvgGE: no average is defined for an empty list, and the
\* comparison is made on the sums
AvgGE_empty_unguarded(sum, n, t) == sum >= t * n

\* avg >= t and avg < t for avg = sum / n, with avg = 0 for an empty list
AvgGE(sum, n, t) == IF n = 0 THEN 0 >= t ELSE sum >= t * n

AvgLT(sum, n, t) == ~AvgGE(sum, n, t)

get_max_level_for_difficulty(difficulty) ==
  IF difficulty \in DOMAIN MAX_LEVEL_BY_DIFFICULTY
    THEN MAX_LEVEL_BY_DIFFICULTY[difficulty]
    ELSE 730

\* 1-based index of the rung the cost loop starts from / stops before
target_index(target_level) ==
  Then({i \in DOMAIN UPGRADE_LEVELS : target_level <= UPGRADE_LEVELS[i]},
       LAMBDA hits : IF hits = {} THEN Len(UPGRADE_LEVELS) ELSE MinOf(hits))

current_index(current_level, target_level) ==
  Then({i \in 1..target_index(target_level) : current_level >= UPGRADE_LEVELS[i]},
       LAMBDA seen : IF seen = {} THEN 1 ELSE MaxOf(seen))

\* the three resource totals of the rungs climbed
rung_costs(rungs) ==
  << RUNG_COST * Cardinality({i \in rungs : UPGRADE_LEVELS[i] < 691}),
     RUNG_COST * Cardinality({i \in rungs : UPGRADE_LEVELS[i] >= 691
                                             /\ UPGRADE_LEVELS[i] < 704}),
     RUNG_COST * Cardinality({i \in rungs : UPGRADE_LEVELS[i] >= 704}) >>

get_upgrade_cost(current_level, target_level) ==
  Then(current_index(current_level, target_level) .. (target_index(target_level) - 1),
       LAMBDA rungs : rung_costs(rungs))


\* mutant of get_next_upgrade_level: the last fitting rung instead of the first
get_next_upgrade_level_last_rung(current_level, difficulty) ==
  Then({i \in DOMAIN UPGRADE_LEVELS :
          /\ UPGRADE_LEVELS[i] > current_level
          /\ UPGRADE_LEVELS[i] <= get_max_level_for_difficulty(difficulty)},
       LAMBDA fits : IF fits = {} THEN None ELSE UPGRADE_LEVELS[MaxOf(fits)])

\* mutant of get_next_upgrade_level: the tier's ceiling is not looked at
get_next_upgrade_level_no_ceiling(current_level, difficulty) ==
  Then({i \in DOMAIN UPGRADE_LEVELS : UPGRADE_LEVELS[i] > current_level},
       LAMBDA fits : IF fits = {} THEN None ELSE UPGRADE_LEVELS[MinOf(fits)])

\* mutant of get_next_upgrade_level: the rung after the first fitting one, when
\* there is one
get_next_upgrade_level_skips_rung(current_level, difficulty) ==
  Then({i \in DOMAIN UPGRADE_LEVELS :
          /\ UPGRADE_LEVELS[i] > current_level
          /\ UPGRADE_LEVELS[i] <= get_max_level_for_difficulty(difficulty)},
       LAMBDA fits : IF fits = {} THEN None
                     ELSE IF MinOf(fits) + 1 \in fits THEN UPGRADE_LEVELS[MinOf(fits) + 1]
                     ELSE UPGRADE_LEVELS[MinOf(fits)])

\* first ladder rung above current_level within the tier's ceiling, or None
get_next_upgrade_level(current_level, difficulty) ==
  Then({i \in DOMAIN UPGRADE_LEVELS :
          /\ UPGRADE_LEVELS[i] > current_level
          /\ UPGRADE_LEVELS[i] <= get_max_level_for_difficulty(difficulty)},
       LAMBDA fits : IF fits = {} THEN None ELSE UPGRADE_LEVELS[MinOf(fits)])

(***************************************************************************)
(* determine_item_difficulty                                               *)
(***************************************************************************)
SPECIAL_ITEMS ==
  << "Improvised Seaforium Pacemaker", "Ring of the Panoply",
     "Rune-Branded Waistband", "Everforged Warglaive" >>

\* difficulty_map, in the order the dict is written (and so iterated)
difficulty_map ==
  << [difficulty |-> "Mythic",
      bonus_list |-> {1540, 1579, 1530, 1546, 1563, 6704}],
     [difficulty |-> "Heroic",
      bonus_list |-> {1527, 1514, 1520, 1489, 1565, 1523, 12353, 12675,
                      12676, 13446}],
     [difficulty |-> "Normal",
      bonus_list |-> {1518, 1507, 12229, 12230, 12231, 12232, 12233}] >>

\* An item of the gear is a record: name is the set of SPECIAL_ITEMS entries
\* that occur in the item's name (the only thing the code asks of the name),
\* bonuses_field says whether 'bonuses' is a list, absent or something else,
\* bonuses is the list when it is one.

\* item.get('bonuses', []), replaced by [] unless it is a list
bonuses_of(item) ==
  IF item.bonuses_field = "list" THEN item.bonuses ELSE <<>>

\* any(special_item in item_name for special_item in SPECIAL_ITEMS)
names_special_item(item_name) ==
  \E k \in DOMAIN SPECIAL_ITEMS : SPECIAL_ITEMS[k] \in item_name

\* no bonus lookup and no level heuristic has answered
NoTier == "none"

\* mutant of difficulty_by_bonuses: the first bonus of the list that is in some
\* set decides
difficulty_by_bonuses_list_order(bonuses) ==
  Then({b \in DOMAIN bonuses :
          \E k \in DOMAIN difficulty_map : bonuses[b] \in difficulty_map[k].bonus_list},
       LAMBDA known :
         IF known = {} THEN NoTier
         ELSE difficulty_map[CHOOSE k \in DOMAIN difficulty_map :
                bonuses[MinOf(known)] \in difficulty_map[k].bonus_list].difficulty)

\* the loop over difficulty_map: the first tier, in the dict's order, one of
\* whose identifiers the item carries
difficulty_by_bonuses(bonuses) ==
  Then({k \in DOMAIN difficulty_map :
          \E b \in DOMAIN bonuses : bonuses[b] \in difficulty_map[k].bonus_list},
       LAMBDA matching :
         IF matching = {} THEN NoTier
         ELSE difficulty_map[MinOf(matching)].difficulty)

\* mutant of difficulty_by_level: the Mythic threshold is exclusive
difficulty_by_level_strict(item_level) ==
  IF item_level > 720 THEN "Mythic"
  ELSE IF item_level >= 707 THEN "Heroic"
  ELSE IF item_level >= 680 THEN "Normal"
  ELSE ""

\* the level heuristic at the end of determine_item_difficulty
difficulty_by_level(item_level) ==
  IF item_level >= 720 THEN "Mythic"
  ELSE IF item_level >= 707 THEN "Heroic"
  ELSE IF item_level >= 680 THEN "Normal"
  ELSE ""

\* what follows the name check: bonus lookup, then level heuristic
difficulty_by_bonuses_or_level(item, item_level) ==
  Then(difficulty_by_bonuses(bonuses_of(item)),
       LAMBDA found : IF found # NoTier THEN found
                      ELSE difficulty_by_level(item_level))

\* mutant of determine_item_difficulty: the name is looked at only when no
\* bonus identifier is known
determine_item_difficulty_bonuses_first(item, item_level) ==
  IF difficulty_by_bonuses(bonuses_of(item)) # NoTier
    THEN difficulty_by_bonuses(bonuses_of(item))
  ELSE IF "Improvised Seaforium Pacemaker" \in item.name THEN "Mythic"
  ELSE IF "Ring of the Panoply" \in item.name THEN "Heroic"
  ELSE IF names_special_item(item.name) THEN "Mythic"
  ELSE difficulty_by_level(item_level)

determine_item_difficulty(item, item_level) ==
  IF names_special_item(item.name)
       /\ "Improvised Seaforium Pacemaker" \in item.name
    THEN "Mythic"
  ELSE IF names_special_item(item.name) /\ "Ring of the Panoply" \in item.name
    THEN "Heroic"
  ELSE IF names_special_item(item.name)
            /\ ("Rune-Branded Waistband" \in item.name
                  \/ "Everforged Warglaive" \in item.name)
    THEN "Mythic"
  ELSE difficulty_by_bonuses_or_level(item, item_level)

\* item_difficulty before determine_item_difficulty has returned
Undetermined == "undetermined"

\* item_data where no gear item is looked at
NoItemData ==
  [name |-> {}, bonuses_field |-> "absent", bonuses |-> <<>>, item_level |-> 0]

(***************************************************************************)
(* State                                                                   *)
(***************************************************************************)
VARIABLES
  items,                  \* self.items: the item records the caller passed
  target_average,         \* self.target_average
  strategy,               \* self.strategy
  max_crafted_items,      \* self.max_crafted_items
  budget_limit,           \* self.budget_limit (None when absent)
  exclude_trinkets,       \* self.exclude_trinkets
  crafted_items_count,    \* self.crafted_items_count
  crafted_items_log,      \* self.crafted_items_log
  crafted_slots,          \* self.crafted_slots
  step_history,           \* self.step_history (its last HISTORY_WINDOW entries)
  total_spent_resources,  \* self.total_spent_resources
  upgraded_items,         \* local copy of the items the simulation changes
  total_resources,        \* local [resource1, resource2, resource3]
  upgrades_made,          \* local step log
  current_avg,            \* local running average, kept as the sum of levels
  step,                   \* local step counter
  pass_parity,            \* passes of the loop begun so far, modulo 2 (a pass
                          \* that changes nothing is still a pass taken)
  pc,                     \* position in find_optimal_path
  result,                 \* the returned record (<<>> until the return)
  item_data,              \* an item of the profile's gear, as the API gives it
  item_difficulty,        \* what determine_item_difficulty returned for it
  strategies,             \* compare_strategies: the strategies still to run
  comparison,             \* compare_strategies: the entries made so far
  standalone              \* the result of a run made outside compare_strategies

config == <<items, target_average, strategy, max_crafted_items, budget_limit,
            exclude_trinkets>>

self_vars == <<crafted_items_count, crafted_items_log, crafted_slots,
               step_history, total_spent_resources>>

local_vars == <<upgraded_items, total_resources, upgrades_made, current_avg, step>>

\* state of the callers of the optimizer
compare_vars == <<strategies, comparison, standalone>>

caller_vars == <<item_data, item_difficulty, compare_vars>>

vars == <<config, self_vars, local_vars, pass_parity, pc, result, caller_vars>>

\* self.current_average, set once by __init__ (as the sum of the levels)
current_average == SumLevels(items)

NumItems == Len(items)

(***************************************************************************)
(* Methods of UpgradeOptimizer that read the state                         *)
(***************************************************************************)
non_craftable_slots == IF exclude_trinkets THEN NON_CRAFTABLE_SLOTS ELSE {}

\* mutant of can_craft_item: the craft count is not compared with the limit
can_craft_item_uncounted(slot) ==
  /\ slot \notin non_craftable_slots
  /\ slot \notin crafted_slots

\* mutant of can_craft_item: the slot is not checked against the excluded slots
can_craft_item_any_slot(slot) ==
  /\ crafted_items_count < max_crafted_items
  /\ slot \notin crafted_slots

can_craft_item(slot) ==
  /\ crafted_items_count < max_crafted_items
  /\ slot \notin non_craftable_slots
  /\ slot \notin crafted_slots

\* is_cycling_detected against a given history
is_cycling_detected(history, item_slot, item_level) ==
  Then(IF Len(history) >= HISTORY_WINDOW
         THEN SubSeq(history, Len(history) - HISTORY_WINDOW + 1, Len(history))
         ELSE history,
       LAMBDA recent_steps :
         Cardinality({k \in DOMAIN recent_steps :
                        /\ recent_steps[k].slot = item_slot
                        /\ recent_steps[k].level = item_level}) >= CYCLE_COUNT)

\* step_history.append, keeping the entries is_cycling_detected can still read
append_history(history, item_slot, item_level) ==
  Then(Append(history, [slot |-> item_slot, level |-> item_level]),
       LAMBDA full : IF Len(full) > HISTORY_WINDOW
                       THEN SubSeq(full, Len(full) - HISTORY_WINDOW + 1, Len(full))
                       ELSE full)

\* mutant of calculate_strategy_priority: cost_efficient takes the dearer of
\* the two
calculate_strategy_priority_dearer(upgrade_cost, craft_cost) ==
  LET upgrade_total == sum3(upgrade_cost)
      craft_total == sum3(craft_cost)
      \* target_average - self.current_average > 10
      gap_is_large == IF NumItems = 0 THEN target_average > 10
                      ELSE target_average * NumItems - current_average > 10 * NumItems
  IN  IF budget_limit # None /\ total_spent_resources + craft_total > budget_limit
        THEN "upgrade"
      ELSE IF budget_limit # None /\ total_spent_resources + upgrade_total > budget_limit
        THEN "skip"
      ELSE IF strategy = "cost_efficient"
        THEN (IF craft_total > upgrade_total THEN "craft" ELSE "upgrade")
      ELSE IF strategy = "fastest" THEN "craft"
      ELSE IF strategy = "level_priority" THEN "upgrade"
      ELSE IF gap_is_large
        \* craft_total <= upgrade_total * 1.5
        THEN (IF 2 * craft_total <= 3 * upgrade_total THEN "craft" ELSE "upgrade")
        \* upgrade_total <= craft_total * 1.2
        ELSE (IF 5 * upgrade_total <= 6 * craft_total THEN "upgrade" ELSE "craft")

\* mutant of calculate_strategy_priority: fastest weighs the costs as
\* cost_efficient does
calculate_strategy_priority_fastest_weighs(upgrade_cost, craft_cost) ==
  LET upgrade_total == sum3(upgrade_cost)
      craft_total == sum3(craft_cost)
      \* target_average - self.current_average > 10
      gap_is_large == IF NumItems = 0 THEN target_average > 10
                      ELSE target_average * NumItems - current_average > 10 * NumItems
  IN  IF budget_limit # None /\ total_spent_resources + craft_total > budget_limit
        THEN "upgrade"
      ELSE IF budget_limit # None /\ total_spent_resources + upgrade_total > budget_limit
        THEN "skip"
      ELSE IF strategy = "cost_efficient"
        THEN (IF craft_total < upgrade_total THEN "craft" ELSE "upgrade")
      ELSE IF strategy = "fastest"
        THEN (IF craft_total < upgrade_total THEN "craft" ELSE "upgrade")
      ELSE IF strategy = "level_priority" THEN "upgrade"
      ELSE IF gap_is_large
        \* craft_total <= upgrade_total * 1.5
        THEN (IF 2 * craft_total <= 3 * upgrade_total THEN "craft" ELSE "upgrade")
        \* upgrade_total <= craft_total * 1.2
        ELSE (IF 5 * upgrade_total <= 6 * craft_total THEN "upgrade" ELSE "craft")

\* mutant of calculate_strategy_priority: level_priority answers as fastest
\* does
calculate_strategy_priority_level_crafts(upgrade_cost, craft_cost) ==
  LET upgrade_total == sum3(upgrade_cost)
      craft_total == sum3(craft_cost)
      \* target_average - self.current_average > 10
      gap_is_large == IF NumItems = 0 THEN target_average > 10
                      ELSE target_average * NumItems - current_average > 10 * NumItems
  IN  IF budget_limit # None /\ total_spent_resources + craft_total > budget_limit
        THEN "upgrade"
      ELSE IF budget_limit # None /\ total_spent_resources + upgrade_total > budget_limit
        THEN "skip"
      ELSE IF strategy = "cost_efficient"
        THEN (IF craft_total < upgrade_total THEN "craft" ELSE "upgrade")
      ELSE IF strategy = "fastest" THEN "craft"
      ELSE IF strategy = "level_priority" THEN "craft"
      ELSE IF gap_is_large
        \* craft_total <= upgrade_total * 1.5
        THEN (IF 2 * craft_total <= 3 * upgrade_total THEN "craft" ELSE "upgrade")
        \* upgrade_total <= craft_total * 1.2
        ELSE (IF 5 * upgrade_total <= 6 * craft_total THEN "upgrade" ELSE "craft")

\* mutant of calculate_strategy_priority: the second budget check looks at the
\* craft cost again, so nothing is ever skipped
calculate_strategy_priority_no_skip(upgrade_cost, craft_cost) ==
  LET upgrade_total == sum3(upgrade_cost)
      craft_total == sum3(craft_cost)
      \* target_average - self.current_average > 10
      gap_is_large == IF NumItems = 0 THEN target_average > 10
                      ELSE target_average * NumItems - current_average > 10 * NumItems
  IN  IF budget_limit # None /\ total_spent_resources + craft_total > budget_limit
        THEN "upgrade"
      ELSE IF budget_limit # None /\ total_spent_resources + craft_total > budget_limit
        THEN "skip"
      ELSE IF strategy = "cost_efficient"
        THEN (IF craft_total < upgrade_total THEN "craft" ELSE "upgrade")
      ELSE IF strategy = "fastest" THEN "craft"
      ELSE IF strategy = "level_priority" THEN "upgrade"
      ELSE IF gap_is_large
        \* craft_total <= upgrade_total * 1.5
        THEN (IF 2 * craft_total <= 3 * upgrade_total THEN "craft" ELSE "upgrade")
        \* upgrade_total <= craft_total * 1.2
        ELSE (IF 5 * upgrade_total <= 6 * craft_total THEN "upgrade" ELSE "craft")

\* the decision of calculate_strategy_priority: "craft", "upgrade" or "skip"
calculate_strategy_priority(upgrade_cost, craft_cost) ==
  LET upgrade_total == sum3(upgrade_cost)
      craft_total == sum3(craft_cost)
      \* target_average - self.current_average > 10
      gap_is_large == IF NumItems = 0 THEN target_average > 10
                      ELSE target_average * NumItems - current_average > 10 * NumItems
  IN  IF budget_limit # None /\ total_spent_resources + craft_total > budget_limit
        THEN "upgrade"
      ELSE IF budget_limit # None /\ total_spent_resources + upgrade_total > budget_limit
        THEN "skip"
      ELSE IF strategy = "cost_efficient"
        THEN (IF craft_total < upgrade_total THEN "craft" ELSE "upgrade")
      ELSE IF strategy = "fastest" THEN "craft"
      ELSE IF strategy = "level_priority" THEN "upgrade"
      ELSE IF gap_is_large
        \* craft_total <= upgrade_total * 1.5
        THEN (IF 2 * craft_total <= 3 * upgrade_total THEN "craft" ELSE "upgrade")
        \* upgrade_total <= craft_total * 1.2
        ELSE (IF 5 * upgrade_total <= 6 * craft_total THEN "upgrade" ELSE "craft")

(***************************************************************************)
(* get_priority_items_for_upgrade                                          *)
(***************************************************************************)
\* mutant of item_priority: the gap from the average is taken with the wrong
\* sign, so items above the average rank first
item_priority_gap_reversed(its, avg_sum, strat, i) ==
  LET n == Len(its)
      level == its[i].item_level
  IN  IF strat = "level_priority" THEN (0 - level) * n
      ELSE LET gap_from_avg == level * n - avg_sum
               potential_gain ==
                 Min2(727, get_max_level_for_difficulty(its[i].difficulty)) - level
           IN  gap_from_avg * 2 + potential_gain * n
                 + (IF its[i].is_special THEN 50 * n ELSE 0)

\* the priority of item i, multiplied by Len(its); avg_sum is the sum of levels
item_priority(its, avg_sum, strat, i) ==
  LET n == Len(its)
      level == its[i].item_level
  IN  IF strat = "level_priority" THEN (0 - level) * n
      ELSE LET gap_from_avg == avg_sum - level * n
               potential_gain ==
                 Min2(727, get_max_level_for_difficulty(its[i].difficulty)) - level
           IN  gap_from_avg * 2 + potential_gain * n
                 + (IF its[i].is_special THEN 50 * n ELSE 0)

\* mutant of get_priority_items_for_upgrade: equal priorities come in reverse
\* list order
get_priority_items_for_upgrade_last_first(its, avg_sum, strat) ==
  SortSeq([i \in 1..Len(its) |-> i],
          LAMBDA a, b :
            \/ item_priority(its, avg_sum, strat, a) > item_priority(its, avg_sum, strat, b)
            \/ /\ item_priority(its, avg_sum, strat, a) = item_priority(its, avg_sum, strat, b)
               /\ a > b)

\* the indices of its in descending priority; equal priorities keep list order
get_priority_items_for_upgrade(its, avg_sum, strat) ==
  SortSeq([i \in 1..Len(its) |-> i],
          LAMBDA a, b :
            \/ item_priority(its, avg_sum, strat, a) > item_priority(its, avg_sum, strat, b)
            \/ /\ item_priority(its, avg_sum, strat, a) = item_priority(its, avg_sum, strat, b)
               /\ a < b)

\* craftable_items of the fallback branches: craftable indices, lowest level first
craftable_items ==
  SortSeq(SelectSeq([i \in 1..Len(upgraded_items) |-> i],
                    LAMBDA i : /\ upgraded_items[i].slot \notin non_craftable_slots
                               /\ upgraded_items[i].slot \notin crafted_slots
                               /\ upgraded_items[i].item_level < 727),
          LAMBDA a, b :
            \/ upgraded_items[a].item_level < upgraded_items[b].item_level
            \/ /\ upgraded_items[a].item_level = upgraded_items[b].item_level
               /\ a < b)

(***************************************************************************)
(* One pass of the main loop of find_optimal_path.                         *)
(*                                                                         *)
(* The per-item locals of the loop travel in a record:                     *)
(*   min_item_idx, current_level, item_slot, item_difficulty, is_special,  *)
(*   max_level_for_difficulty, next_level                                  *)
(* together with history (self.step_history as the pass has left it so     *)
(* far) and ctl, which says how the pass goes on: "run" (fall through to   *)
(* the next block), "craft", "upgrade", "continue" (back to the loop head  *)
(* with no action applied) or "break".  Each block below is one `if` of    *)
(* the loop body and passes the record through once ctl has left "run".    *)
(***************************************************************************)
select_item(i) ==
  [ ctl                      |-> "run",
    history                  |-> step_history,
    min_item_idx             |-> i,
    current_level            |-> upgraded_items[i].item_level,
    item_slot                |-> upgraded_items[i].slot,
    item_difficulty          |-> upgraded_items[i].difficulty,
    is_special               |-> upgraded_items[i].is_special,
    max_level_for_difficulty |-> None,
    next_level               |-> None ]

\* the re-selections that refresh item_difficulty with the rest
reselect(loc, i) ==
  [loc EXCEPT !.min_item_idx    = i,
              !.current_level   = upgraded_items[i].item_level,
              !.item_slot       = upgraded_items[i].slot,
              !.item_difficulty = upgraded_items[i].difficulty,
              !.is_special      = upgraded_items[i].is_special]

\* the re-selections of the craft fallbacks: item_difficulty is left as it was
reselect_craftable(loc, i) ==
  [loc EXCEPT !.min_item_idx  = i,
              !.current_level = upgraded_items[i].item_level,
              !.item_slot     = upgraded_items[i].slot,
              !.is_special    = upgraded_items[i].is_special]

leave(loc, how) == [loc EXCEPT !.ctl = how]

\* priority_items[1:] filtered on level < 727 and slot not crafted
below_ceiling_uncrafted(priority_items) ==
  SelectSeq(Tail(priority_items),
            LAMBDA i : /\ upgraded_items[i].item_level < 727
                       /\ upgraded_items[i].slot \notin crafted_slots)

\* "if craftable_items: ... else: break" of the first two craft fallbacks
craft_fallback(loc, craftable) ==
  IF craftable # <<>>
    THEN reselect_craftable(loc, craftable[1])
    ELSE leave(loc, "break")

\* "if not priority_items: break", then the choice of priority_items[0]
first_choice(priority_items) ==
  IF priority_items = <<>>
    THEN [ctl |-> "break", history |-> step_history]
    ELSE select_item(priority_items[1])

\* "if current_level >= 727": the first-ranked item is already at the ceiling
maxed_switch(loc, available_items) ==
  IF available_items # <<>>
    THEN reselect(loc, available_items[1])
  ELSE IF crafted_items_count < max_crafted_items
    THEN Then(craftable_items, LAMBDA craftable : craft_fallback(loc, craftable))
  ELSE leave(loc, "break")

skip_maxed_item(priority_items, loc) ==
  IF loc.ctl # "run" THEN loc
  ELSE IF loc.current_level >= 727
    THEN Then(below_ceiling_uncrafted(priority_items),
              LAMBDA available_items : maxed_switch(loc, available_items))
  ELSE loc

\* "if current_level < 727 and self.is_cycling_detected(...)"
cycle_switch(loc, next_items) ==
  IF next_items # <<>>
    THEN reselect(loc, next_items[1])
  ELSE IF can_craft_item(loc.item_slot) /\ loc.current_level < 727
    THEN loc
  ELSE leave(loc, "break")

cycle_guard(priority_items, loc) ==
  IF loc.ctl # "run" THEN loc
  ELSE IF loc.current_level < 727
          /\ is_cycling_detected(loc.history, loc.item_slot, loc.current_level)
    THEN Then(SelectSeq(Tail(priority_items),
                        LAMBDA i :
                          /\ ~is_cycling_detected(loc.history, upgraded_items[i].slot,
                                                  upgraded_items[i].item_level)
                          /\ upgraded_items[i].item_level < 727),
              LAMBDA next_items : cycle_switch(loc, next_items))
  ELSE loc

\* "if current_level < 727: self.step_history.append(...)"
record_history(loc) ==
  IF loc.ctl # "run" THEN loc
  ELSE IF loc.current_level < 727
    THEN [loc EXCEPT !.history =
            append_history(loc.history, loc.item_slot, loc.current_level)]
  ELSE loc

\* the choice among available_items: the first that is not cycling, else the first
tier_switch(loc, available_items, valid_items) ==
  IF available_items # <<>>
    THEN IF valid_items # <<>>
           THEN [reselect(loc, valid_items[1]) EXCEPT !.max_level_for_difficulty =
                   get_max_level_for_difficulty(upgraded_items[valid_items[1]].difficulty)]
           ELSE [reselect(loc, available_items[1]) EXCEPT !.max_level_for_difficulty =
                   get_max_level_for_difficulty(upgraded_items[available_items[1]].difficulty)]
  ELSE IF crafted_items_count < max_crafted_items
    THEN Then(craftable_items, LAMBDA craftable : craft_fallback(loc, craftable))
  ELSE loc

tier_candidates(priority_items) ==
  SelectSeq(priority_items,
            LAMBDA i :
              /\ \/ upgraded_items[i].item_level
                      < get_max_level_for_difficulty(upgraded_items[i].difficulty)
                 \/ upgraded_items[i].item_level < 727
              /\ upgraded_items[i].slot \notin crafted_slots
              /\ upgraded_items[i].item_level < 727
              /\ upgraded_items[i].slot \notin non_craftable_slots)

not_cycling(history, candidates) ==
  SelectSeq(candidates,
            LAMBDA i : ~is_cycling_detected(history, upgraded_items[i].slot,
                                            upgraded_items[i].item_level))

\* "max_level_for_difficulty = ...", then
\* "if current_level >= max_level_for_difficulty and current_level < 727"
tier_ceiling_check(priority_items, loc) ==
  IF loc.current_level >= loc.max_level_for_difficulty /\ loc.current_level < 727
    THEN Then(tier_candidates(priority_items),
              LAMBDA available_items :
                Then(not_cycling(loc.history, available_items),
                     LAMBDA valid_items : tier_switch(loc, available_items, valid_items)))
    ELSE loc

tier_ceiling(priority_items, loc) ==
  IF loc.ctl # "run" THEN loc
  ELSE Then([loc EXCEPT !.max_level_for_difficulty =
                         get_max_level_for_difficulty(loc.item_difficulty)],
            LAMBDA l : tier_ceiling_check(priority_items, l))

\* mutant of craft_cost_for: a special item is charged the ordinary craft cost
craft_cost_for_plain(is_special) == CRAFT_COST_727

craft_cost_for(is_special) ==
  IF is_special THEN SPECIAL_UPGRADE_COST_727 ELSE CRAFT_COST_727

\* upgrade_cost_to_max of the craft block
upgrade_cost_to_max(loc) ==
  IF loc.current_level < Min2(loc.max_level_for_difficulty, 727)
    THEN get_upgrade_cost(loc.current_level, Min2(loc.max_level_for_difficulty, 727))
    ELSE <<0, 0, 0>>

\* what the craft block does with the decision of calculate_strategy_priority
act_on_decision(loc, decision, available_items) ==
  IF decision = "skip"
    THEN IF available_items # <<>>
           THEN reselect(loc, available_items[1])
           ELSE leave(loc, "break")
  ELSE IF \/ decision = "craft"
          \/ ~(loc.current_level < Min2(loc.max_level_for_difficulty, 727))
          \/ loc.current_level >= loc.max_level_for_difficulty
    THEN leave(loc, "craft")
  ELSE loc

\* "if self.can_craft_item(item_slot) and current_avg < target and current_level < 727"
craft_decision(priority_items, loc) ==
  IF loc.ctl # "run" THEN loc
  ELSE IF /\ can_craft_item(loc.item_slot)
          /\ AvgLT(current_avg, NumItems, target_average)
          /\ loc.current_level < 727
    THEN IF budget_limit # None
            /\ sum3(total_resources) + sum3(craft_cost_for(loc.is_special)) > budget_limit
           THEN loc
           ELSE Then(Then(upgrade_cost_to_max(loc),
                          LAMBDA upgrade_cost :
                            calculate_strategy_priority(upgrade_cost,
                                                        craft_cost_for(loc.is_special))),
                     LAMBDA decision :
                       Then(below_ceiling_uncrafted(priority_items),
                            LAMBDA available_items :
                              act_on_decision(loc, decision, available_items)))
  ELSE loc

\* the two clamps applied to a next level in the upgrade block
clamp_next_level(next_level, current_level, is_special, max_level) ==
  IF is_special /\ next_level # None /\ next_level > 727
    THEN (IF current_level < 727
            THEN (IF 727 > max_level THEN Min2(727, 727) ELSE 727)
            ELSE None)
  ELSE IF next_level # None /\ next_level > max_level
    THEN Min2(next_level, 727)
  ELSE next_level

\* next_level as the upgrade block first computes it for the chosen item
first_next_level(loc) ==
  Then(get_next_upgrade_level(loc.current_level, loc.item_difficulty),
       LAMBDA next_level :
         clamp_next_level(next_level, loc.current_level, loc.is_special,
                          loc.max_level_for_difficulty))

\* next_level after the switch to another item ("Ищем другой предмет")
with_next_level(loc) ==
  [loc EXCEPT !.next_level =
     Then(get_next_upgrade_level(loc.current_level, loc.item_difficulty),
          LAMBDA next_level :
            clamp_next_level(next_level, loc.current_level, loc.is_special,
                             get_max_level_for_difficulty(loc.item_difficulty)))]

upgrade_candidates(priority_items, history) ==
  SelectSeq(Tail(priority_items),
            LAMBDA i :
              /\ upgraded_items[i].item_level
                   < Min2(get_max_level_for_difficulty(upgraded_items[i].difficulty), 727)
              /\ upgraded_items[i].slot \notin crafted_slots
              /\ upgraded_items[i].item_level < 727
              /\ ~is_cycling_detected(history, upgraded_items[i].slot,
                                      upgraded_items[i].item_level)
              /\ upgraded_items[i].slot \notin non_craftable_slots)

\* mutant of find_upgradable: with nothing left to upgrade or craft the pass is
\* restarted instead of ending the run
find_upgradable_retries(loc, next_level, available_items) ==
  IF ~(next_level = None \/ next_level <= loc.current_level)
    THEN [loc EXCEPT !.next_level = next_level]
  ELSE IF available_items # <<>>
    THEN Then(reselect(loc, available_items[1]), LAMBDA l : with_next_level(l))
  ELSE IF crafted_items_count < max_crafted_items /\ craftable_items # <<>>
    THEN leave(reselect_craftable(loc, craftable_items[1]), "continue")
  ELSE leave(loc, "continue")

\* "if next_level is None or next_level <= current_level"
find_upgradable(loc, next_level, available_items) ==
  IF ~(next_level = None \/ next_level <= loc.current_level)
    THEN [loc EXCEPT !.next_level = next_level]
  ELSE IF available_items # <<>>
    THEN Then(reselect(loc, available_items[1]), LAMBDA l : with_next_level(l))
  ELSE IF crafted_items_count < max_crafted_items /\ craftable_items # <<>>
    THEN leave(reselect_craftable(loc, craftable_items[1]), "continue")
  ELSE leave(loc, "break")

\* mutant of pay_upgrade: the upgrade is applied without the budget check
pay_upgrade_unchecked(loc, cost, available_items) == leave(loc, "upgrade")

\* the budget check of an upgrade that is otherwise possible
pay_upgrade(loc, cost, available_items) ==
  IF budget_limit # None /\ sum3(total_resources) + sum3(cost) > budget_limit
    THEN IF available_items # <<>>
           THEN leave(reselect(loc, available_items[1]), "continue")
           ELSE leave(loc, "break")
    ELSE leave(loc, "upgrade")

\* "if next_level is not None and next_level > current_level: ... else: ..."
apply_or_give_up(priority_items, loc) ==
  IF loc.ctl # "run" THEN loc
  ELSE IF loc.next_level # None /\ loc.next_level > loc.current_level
    THEN Then(below_ceiling_uncrafted(priority_items),
              LAMBDA available_items :
                Then(get_upgrade_cost(loc.current_level, loc.next_level),
                     LAMBDA cost : pay_upgrade(loc, cost, available_items)))
  ELSE IF can_craft_item(loc.item_slot) /\ loc.current_level < 727
    THEN leave(loc, "continue")
  ELSE leave(loc, "break")

\* "if current_avg < self.target_average and current_level < 727"
ordinary_upgrade(priority_items, loc) ==
  IF loc.ctl # "run" THEN loc
  ELSE IF AvgLT(current_avg, NumItems, target_average) /\ loc.current_level < 727
    THEN Then(Then(first_next_level(loc),
                   LAMBDA next_level :
                     Then(upgrade_candidates(priority_items, loc.history),
                          LAMBDA available_items :
                            find_upgradable(loc, next_level, available_items))),
              LAMBDA l : apply_or_give_up(priority_items, l))
  ELSE leave(loc, "continue")

\* the blocks of a pass that settle which item the pass is about
choose_item(priority_items) ==
  Then(Then(Then(Then(
    first_choice(priority_items),
    LAMBDA loc : skip_maxed_item(priority_items, loc)),
    LAMBDA loc : cycle_guard(priority_items, loc)),
    LAMBDA loc : record_history(loc)),
    LAMBDA loc : tier_ceiling(priority_items, loc))

\* the body of one pass over a given priority list
run_pass(priority_items) ==
  Then(Then(
    choose_item(priority_items),
    LAMBDA loc : craft_decision(priority_items, loc)),
    LAMBDA loc : ordinary_upgrade(priority_items, loc))

\* the outcome of the pass that starts in the current state
loop_body ==
  Then(get_priority_items_for_upgrade(upgraded_items, current_avg, strategy),
       LAMBDA priority_items : run_pass(priority_items))

(***************************************************************************)
(* Inputs                                                                  *)
(***************************************************************************)
\* slots of the exhaustively enumerated rosters, in SLOT_ORDER order
ModelSlots == <<"head", "trinket1", "mainhand">>

\* (level, tier, special) of the enumerated items: off the ladder, at and
\* above a tier ceiling, one rung below 727, above 727, below the ladder
ItemKinds ==
  { [item_level |-> 700, difficulty |-> "Normal", is_special |-> FALSE],
    [item_level |-> 704, difficulty |-> "Normal", is_special |-> FALSE],
    [item_level |-> 713, difficulty |-> "Heroic", is_special |-> FALSE],
    [item_level |-> 720, difficulty |-> "Heroic", is_special |-> TRUE],
    [item_level |-> 723, difficulty |-> "Mythic", is_special |-> FALSE],
    [item_level |-> 730, difficulty |-> "Mythic", is_special |-> FALSE],
    [item_level |-> 678, difficulty |-> "",       is_special |-> FALSE] }

\* the items of the 16-slot rosters, all alike
FullRosterKinds ==
  { [item_level |-> 681, difficulty |-> "Normal", is_special |-> FALSE],
    [item_level |-> 681, difficulty |-> "Mythic", is_special |-> FALSE] }

\* the item of the one-item rosters that hold a special item at the bottom of
\* the ladder, in each tier
SpecialRosterKinds ==
  { [item_level |-> 681, difficulty |-> d, is_special |-> TRUE] :
      d \in {"Normal", "Heroic", "Mythic", ""} }

Targets == {690, 710, 727}

Budgets == {None, 15, 100}

make_item(slot, kind) ==
  [ slot       |-> slot,
    item_level |-> kind.item_level,
    difficulty |-> kind.difficulty,
    is_special |-> kind.is_special,
    crafted    |-> FALSE ]

\* item lists as CharacterData.get_equipment_items returns them: distinct
\* slots, sorted by SLOT_ORDER
SmallRosters ==
  UNION { { [i \in 1..n |-> make_item(ModelSlots[pos[i]], kinds[i])] :
              pos \in {p \in [1..n -> DOMAIN ModelSlots] :
                         \A i, j \in 1..n : i < j => p[i] < p[j]},
              kinds \in [1..n -> ItemKinds] } :
          n \in 0..MaxItems }

FullRosters ==
  { [i \in DOMAIN SLOT_ORDER |-> make_item(SLOT_ORDER[i], kind)] :
      kind \in FullRosterKinds }

SpecialRosters == { <<make_item("finger1", kind)>> : kind \in SpecialRosterKinds }

\* a roster whose average a cheap craft of the special ring brings within 10
\* of 727 while the head still has five rungs to climb
MixedRosters ==
  { << make_item("head", [item_level |-> 710, difficulty |-> "Mythic",
                          is_special |-> FALSE]),
       make_item("finger1", [item_level |-> 681, difficulty |-> "Mythic",
                             is_special |-> TRUE]) >> }

\* compare_strategies has not been called
NoComparison ==
  /\ strategies = <<>>
  /\ comparison = <<>>
  /\ standalone = <<>>

(***************************************************************************)
(* Init: the optimizer as UpgradeOptimizer.__init__ leaves it              *)
(***************************************************************************)
Init ==
  /\ items \in SmallRosters \cup FullRosters \cup SpecialRosters \cup MixedRosters
  /\ target_average \in Targets
  /\ strategy \in OPTIMIZATION_STRATEGIES
  /\ max_crafted_items \in 0..MaxCraftLimit
  /\ budget_limit \in Budgets
  /\ exclude_trinkets \in BOOLEAN
  /\ crafted_items_count = 0
  /\ crafted_items_log = <<>>
  /\ crafted_slots = {}
  /\ step_history = <<>>
  /\ total_spent_resources = 0
  /\ upgraded_items = <<>>
  /\ total_resources = <<0, 0, 0>>
  /\ upgrades_made = <<>>
  /\ current_avg = 0
  /\ step = 0
  /\ pass_parity = 0
  /\ pc = "start"
  /\ result = <<>>
  /\ item_data = NoItemData
  /\ item_difficulty = Undetermined
  /\ NoComparison

(***************************************************************************)
(* find_optimal_path                                                       *)
(***************************************************************************)
\* mutant of already_reached_result: final_items is the local copy, which the
\* early return precedes
already_reached_result_local_copy ==
  [ message              |-> "already reached",
    resources_needed     |-> <<0, 0, 0>>,
    total_resources_cost |-> 0,
    upgrades             |-> <<>>,
    crafted_items        |-> 0,
    crafted_items_log    |-> <<>>,
    final_average        |-> current_average,
    final_items          |-> upgraded_items,
    strategy             |-> strategy ]

\* the record returned when the target is met before any step
already_reached_result ==
  [ message              |-> "already reached",
    resources_needed     |-> <<0, 0, 0>>,
    total_resources_cost |-> 0,
    upgrades             |-> <<>>,
    crafted_items        |-> 0,
    crafted_items_log    |-> <<>>,
    final_average        |-> current_average,
    final_items          |-> items,
    strategy             |-> strategy ]

\* "if self.current_average >= self.target_average: return {...}"
AlreadyReached ==
  /\ pc = "start"
  /\ AvgGE(current_average, NumItems, target_average)
  /\ result' = already_reached_result
  /\ pc' = "done"
  /\ UNCHANGED <<caller_vars, config, self_vars, local_vars, pass_parity>>

\* the set-up of the simulation before the loop
BeginSimulation ==
  /\ pc = "start"
  /\ AvgLT(current_average, NumItems, target_average)
  /\ upgraded_items' = items
  /\ total_resources' = <<0, 0, 0>>
  /\ upgrades_made' = <<>>
  /\ current_avg' = current_average
  /\ step' = 1
  /\ pc' = "loop"
  /\ UNCHANGED <<caller_vars, config, self_vars, pass_parity, result>>

\* mutant of loop_condition: the cap lets one more step through
loop_condition_off_by_one ==
  AvgLT(current_avg, NumItems, target_average) /\ step <= max_steps + 1

\* "while current_avg < self.target_average and step <= max_steps"
loop_condition ==
  AvgLT(current_avg, NumItems, target_average) /\ step <= max_steps

\* "if self.budget_limit is not None and sum(total_resources) >= self.budget_limit"
budget_spent ==
  budget_limit # None /\ sum3(total_resources) >= budget_limit

\* the loop condition fails (also the "if current_avg >= target: break" that
\* ends a pass)
LoopExit ==
  /\ pc = "loop"
  /\ ~loop_condition
  /\ pc' = "finish"
  /\ UNCHANGED <<caller_vars, config, self_vars, local_vars, pass_parity, result>>

BudgetExhausted ==
  /\ pc = "loop"
  /\ loop_condition
  /\ budget_spent
  /\ pc' = "finish"
  /\ UNCHANGED <<caller_vars, config, self_vars, local_vars, pass_parity, result>>

in_pass == pc = "loop" /\ loop_condition /\ ~budget_spent

\* one more pass of the loop has been made
pass_made == pass_parity' = 1 - pass_parity

\* mutant of apply_craft: the crafted slot is not recorded in crafted_slots
apply_craft_slot_forgotten(loc, craft_cost, old_level) ==
  /\ crafted_items_count' = crafted_items_count + 1
  /\ crafted_slots' = crafted_slots
  /\ upgraded_items' = [upgraded_items EXCEPT ![loc.min_item_idx].item_level = CRAFT_LEVEL,
                                             ![loc.min_item_idx].crafted = TRUE]
  /\ crafted_items_log' =
       Append(crafted_items_log,
              [ step |-> step, slot |-> upgraded_items[loc.min_item_idx].slot,
                from |-> old_level, to |-> CRAFT_LEVEL, cost |-> craft_cost,
                type |-> "crafted" ])
  /\ upgrades_made' =
       Append(upgrades_made,
              [ step |-> step, slot |-> upgraded_items[loc.min_item_idx].slot,
                from |-> old_level, to |-> CRAFT_LEVEL, cost |-> craft_cost,
                type |-> "crafted" ])
  /\ total_resources' = add3(total_resources, craft_cost)
  /\ total_spent_resources' = total_spent_resources + sum3(craft_cost)
  /\ current_avg' = SumLevels(upgraded_items')
  /\ step_history' = loc.history
  /\ step' = step + 1

\* mutant of apply_craft: the crafted item is not marked crafted
apply_craft_flag_unset(loc, craft_cost, old_level) ==
  /\ crafted_items_count' = crafted_items_count + 1
  /\ crafted_slots' = crafted_slots \cup {loc.item_slot}
  /\ upgraded_items' = [upgraded_items EXCEPT ![loc.min_item_idx].item_level = CRAFT_LEVEL,
                                             ![loc.min_item_idx].crafted = FALSE]
  /\ crafted_items_log' =
       Append(crafted_items_log,
              [ step |-> step, slot |-> upgraded_items[loc.min_item_idx].slot,
                from |-> old_level, to |-> CRAFT_LEVEL, cost |-> craft_cost,
                type |-> "crafted" ])
  /\ upgrades_made' =
       Append(upgrades_made,
              [ step |-> step, slot |-> upgraded_items[loc.min_item_idx].slot,
                from |-> old_level, to |-> CRAFT_LEVEL, cost |-> craft_cost,
                type |-> "crafted" ])
  /\ total_resources' = add3(total_resources, craft_cost)
  /\ total_spent_resources' = total_spent_resources + sum3(craft_cost)
  /\ current_avg' = SumLevels(upgraded_items')
  /\ step_history' = loc.history
  /\ step' = step + 1

\* mutant of apply_craft: the step counter is not advanced after a craft
apply_craft_step_kept(loc, craft_cost, old_level) ==
  /\ crafted_items_count' = crafted_items_count + 1
  /\ crafted_slots' = crafted_slots \cup {loc.item_slot}
  /\ upgraded_items' = [upgraded_items EXCEPT ![loc.min_item_idx].item_level = CRAFT_LEVEL,
                                             ![loc.min_item_idx].crafted = TRUE]
  /\ crafted_items_log' =
       Append(crafted_items_log,
              [ step |-> step, slot |-> upgraded_items[loc.min_item_idx].slot,
                from |-> old_level, to |-> CRAFT_LEVEL, cost |-> craft_cost,
                type |-> "crafted" ])
  /\ upgrades_made' =
       Append(upgrades_made,
              [ step |-> step, slot |-> upgraded_items[loc.min_item_idx].slot,
                from |-> old_level, to |-> CRAFT_LEVEL, cost |-> craft_cost,
                type |-> "crafted" ])
  /\ total_resources' = add3(total_resources, craft_cost)
  /\ total_spent_resources' = total_spent_resources + sum3(craft_cost)
  /\ current_avg' = SumLevels(upgraded_items')
  /\ step_history' = loc.history
  /\ step' = step

\* mutant of apply_craft: the crafted item is left one rung below 727
apply_craft_one_rung_short(loc, craft_cost, old_level) ==
  /\ crafted_items_count' = crafted_items_count + 1
  /\ crafted_slots' = crafted_slots \cup {loc.item_slot}
  /\ upgraded_items' = [upgraded_items EXCEPT ![loc.min_item_idx].item_level = 723,
                                             ![loc.min_item_idx].crafted = TRUE]
  /\ crafted_items_log' =
       Append(crafted_items_log,
              [ step |-> step, slot |-> upgraded_items[loc.min_item_idx].slot,
                from |-> old_level, to |-> CRAFT_LEVEL, cost |-> craft_cost,
                type |-> "crafted" ])
  /\ upgrades_made' =
       Append(upgrades_made,
              [ step |-> step, slot |-> upgraded_items[loc.min_item_idx].slot,
                from |-> old_level, to |-> CRAFT_LEVEL, cost |-> craft_cost,
                type |-> "crafted" ])
  /\ total_resources' = add3(total_resources, craft_cost)
  /\ total_spent_resources' = total_spent_resources + sum3(craft_cost)
  /\ current_avg' = SumLevels(upgraded_items')
  /\ step_history' = loc.history
  /\ step' = step + 1

\* the craft of the chosen item to 727
apply_craft(loc, craft_cost, old_level) ==
  /\ crafted_items_count' = crafted_items_count + 1
  /\ crafted_slots' = crafted_slots \cup {loc.item_slot}
  /\ upgraded_items' = [upgraded_items EXCEPT ![loc.min_item_idx].item_level = CRAFT_LEVEL,
                                             ![loc.min_item_idx].crafted = TRUE]
  /\ crafted_items_log' =
       Append(crafted_items_log,
              [ step |-> step, slot |-> upgraded_items[loc.min_item_idx].slot,
                from |-> old_level, to |-> CRAFT_LEVEL, cost |-> craft_cost,
                type |-> "crafted" ])
  /\ upgrades_made' =
       Append(upgrades_made,
              [ step |-> step, slot |-> upgraded_items[loc.min_item_idx].slot,
                from |-> old_level, to |-> CRAFT_LEVEL, cost |-> craft_cost,
                type |-> "crafted" ])
  /\ total_resources' = add3(total_resources, craft_cost)
  /\ total_spent_resources' = total_spent_resources + sum3(craft_cost)
  /\ current_avg' = SumLevels(upgraded_items')
  /\ step_history' = loc.history
  /\ step' = step + 1

\* mutant of apply_upgrade: the item is written back at its old level
apply_upgrade_stale_level(loc, cost) ==
  /\ upgraded_items' = [upgraded_items EXCEPT ![loc.min_item_idx].item_level = loc.current_level]
  /\ upgrades_made' =
       Append(upgrades_made,
              [ step |-> step, slot |-> upgraded_items[loc.min_item_idx].slot,
                from |-> loc.current_level, to |-> loc.next_level, cost |-> cost,
                type |-> "upgrade" ])
  /\ total_resources' = add3(total_resources, cost)
  /\ total_spent_resources' = total_spent_resources + sum3(cost)
  /\ current_avg' = SumLevels(upgraded_items')
  /\ step_history' = loc.history
  /\ step' = step + 1

\* mutant of apply_upgrade: the cost of an upgrade is not added to
\* total_spent_resources
apply_upgrade_spend_forgotten(loc, cost) ==
  /\ upgraded_items' = [upgraded_items EXCEPT ![loc.min_item_idx].item_level = loc.next_level]
  /\ upgrades_made' =
       Append(upgrades_made,
              [ step |-> step, slot |-> upgraded_items[loc.min_item_idx].slot,
                from |-> loc.current_level, to |-> loc.next_level, cost |-> cost,
                type |-> "upgrade" ])
  /\ total_resources' = add3(total_resources, cost)
  /\ total_spent_resources' = total_spent_resources
  /\ current_avg' = SumLevels(upgraded_items')
  /\ step_history' = loc.history
  /\ step' = step + 1

\* the one-rung upgrade of the chosen item
apply_upgrade(loc, cost) ==
  /\ upgraded_items' = [upgraded_items EXCEPT ![loc.min_item_idx].item_level = loc.next_level]
  /\ upgrades_made' =
       Append(upgrades_made,
              [ step |-> step, slot |-> upgraded_items[loc.min_item_idx].slot,
                from |-> loc.current_level, to |-> loc.next_level, cost |-> cost,
                type |-> "upgrade" ])
  /\ total_resources' = add3(total_resources, cost)
  /\ total_spent_resources' = total_spent_resources + sum3(cost)
  /\ current_avg' = SumLevels(upgraded_items')
  /\ step_history' = loc.history
  /\ step' = step + 1

\* a pass whose body decides to craft
craft_pass(loc) ==
  /\ loc.ctl = "craft"
  /\ apply_craft(loc, craft_cost_for(loc.is_special),
                 upgraded_items[loc.min_item_idx].item_level)
  /\ pass_made
  /\ UNCHANGED <<caller_vars, config, pc, result>>

CraftStep == in_pass /\ \E loc \in {loop_body} : craft_pass(loc)

\* a pass whose body decides on a one-rung upgrade
upgrade_pass(loc) ==
  /\ loc.ctl = "upgrade"
  /\ \E cost \in {get_upgrade_cost(loc.current_level, loc.next_level)} :
       apply_upgrade(loc, cost)
  /\ pass_made
  /\ UNCHANGED <<caller_vars, config, crafted_items_count, crafted_items_log, crafted_slots,
                 pc, result>>

UpgradeStep == in_pass /\ \E loc \in {loop_body} : upgrade_pass(loc)

\* a pass that ends in `continue` with no action applied
retry_pass(loc) ==
  /\ loc.ctl = "continue"
  /\ step_history' = loc.history
  /\ pass_made
  /\ UNCHANGED <<caller_vars, config, crafted_items_count, crafted_items_log, crafted_slots,
                 total_spent_resources, local_vars, pc, result>>

Retry == in_pass /\ \E loc \in {loop_body} : retry_pass(loc)

\* a pass that ends in `break`
break_pass(loc) ==
  /\ loc.ctl = "break"
  /\ step_history' = loc.history
  /\ pass_made
  /\ pc' = "finish"
  /\ UNCHANGED <<caller_vars, config, crafted_items_count, crafted_items_log, crafted_slots,
                 total_spent_resources, local_vars, result>>

NoCandidate == in_pass /\ \E loc \in {loop_body} : break_pass(loc)

\* mutant of final_result: goal_reached asks for an average above the target
final_result_strict_goal ==
  [ current_average      |-> current_average,
    final_average        |-> current_avg,
    resources_needed     |-> total_resources,
    total_resources_cost |-> sum3(total_resources),
    upgrades_count       |-> Len(SelectSeq(upgrades_made, LAMBDA u : u.type = "upgrade")),
    crafted_items        |-> Len(crafted_items_log),
    crafted_items_log    |-> crafted_items_log,
    upgrades             |-> upgrades_made,
    goal_reached         |-> AvgGE(current_avg, NumItems, target_average + 1),
    current_items        |-> items,
    final_items          |-> upgraded_items,
    strategy             |-> strategy,
    max_crafted_items    |-> max_crafted_items,
    budget_limit         |-> budget_limit,
    exclude_trinkets     |-> exclude_trinkets ]

\* mutant of final_result: current_items shows the items of the simulation, as
\* if the run had worked on the records it was given
final_result_shared_items ==
  [ current_average      |-> current_average,
    final_average        |-> current_avg,
    resources_needed     |-> total_resources,
    total_resources_cost |-> sum3(total_resources),
    upgrades_count       |-> Len(SelectSeq(upgrades_made, LAMBDA u : u.type = "upgrade")),
    crafted_items        |-> Len(crafted_items_log),
    crafted_items_log    |-> crafted_items_log,
    upgrades             |-> upgrades_made,
    goal_reached         |-> AvgGE(current_avg, NumItems, target_average),
    current_items        |-> upgraded_items,
    final_items          |-> upgraded_items,
    strategy             |-> strategy,
    max_crafted_items    |-> max_crafted_items,
    budget_limit         |-> budget_limit,
    exclude_trinkets     |-> exclude_trinkets ]

\* the record returned after the loop
final_result ==
  [ current_average      |-> current_average,
    final_average        |-> current_avg,
    resources_needed     |-> total_resources,
    total_resources_cost |-> sum3(total_resources),
    upgrades_count       |-> Len(SelectSeq(upgrades_made, LAMBDA u : u.type = "upgrade")),
    crafted_items        |-> Len(crafted_items_log),
    crafted_items_log    |-> crafted_items_log,
    upgrades             |-> upgrades_made,
    goal_reached         |-> AvgGE(current_avg, NumItems, target_average),
    current_items        |-> items,
    final_items          |-> upgraded_items,
    strategy             |-> strategy,
    max_crafted_items    |-> max_crafted_items,
    budget_limit         |-> budget_limit,
    exclude_trinkets     |-> exclude_trinkets ]

BuildResult ==
  /\ pc = "finish"
  /\ result' = final_result
  /\ pc' = "done"
  /\ UNCHANGED <<caller_vars, config, self_vars, local_vars, pass_parity>>

Next ==
  \/ AlreadyReached
  \/ BeginSimulation
  \/ LoopExit
  \/ BudgetExhausted
  \/ CraftStep
  \/ UpgradeStep
  \/ Retry
  \/ NoCandidate
  \/ BuildResult

Spec == Init /\ [][Next]_vars

\* the loop runs on its own: a pass that is possible is eventually taken
FairSpec == Spec /\ WF_vars(Next)

(***************************************************************************)
(* Properties                                                              *)
(***************************************************************************)
\* the initial average already meets the target (the early return is taken)
TargetAlreadyMet == AvgGE(current_average, NumItems, target_average)

Returned == pc = "done"

\* the simulation loop was entered and the run has returned
ReturnedFromLoop == Returned /\ ~TargetAlreadyMet

CraftRecords(log) == SelectSeq(log, LAMBDA u : u.type = "crafted")

\* the index of the item in a given slot
ItemIn(slot) == CHOOSE i \in DOMAIN upgraded_items : upgraded_items[i].slot = slot

\* C1: every run of find_optimal_path returns, whatever the items and the
\* configuration; in particular a run whose budget cannot pay for a further
\* action ends (with the progress made so far).
C1_Terminates == <>Returned

\* C2: with a budget limit configured, the three running totals never sum to
\* more than the limit, after any action, and neither does the reported
\* total_resources_cost.
C2_BudgetRespected ==
  budget_limit # None =>
    /\ sum3(total_resources) <= budget_limit
    /\ total_spent_resources <= budget_limit
    /\ Returned => result.total_resources_cost <= budget_limit

\* a budgeted run that applied a craft and an upgrade and has returned
C2_Witness ==
  /\ budget_limit # None
  /\ ReturnedFromLoop
  /\ \E k \in DOMAIN upgrades_made : upgrades_made[k].type = "crafted"
  /\ \E k \in DOMAIN upgrades_made : upgrades_made[k].type = "upgrade"
  /\ sum3(total_resources) > 0

\* C3: the number of crafts performed, which is the number of craft records
\* in the step log, never exceeds max_crafted_items; with a limit of 0 no
\* craft is ever applied.
C3_CraftCountRespected ==
  /\ crafted_items_count <= max_crafted_items
  /\ crafted_items_count = Len(CraftRecords(upgrades_made))
  /\ crafted_items_count = Len(crafted_items_log)
  /\ max_crafted_items = 0 => \A k \in DOMAIN upgrades_made : upgrades_made[k].type # "crafted"

\* a run that used up its craft limit and still ended below the target
C3_Witness ==
  /\ ReturnedFromLoop
  /\ max_crafted_items >= 1
  /\ crafted_items_count = max_crafted_items
  /\ ~result.goal_reached
  /\ \E i \in DOMAIN upgraded_items :
       /\ upgraded_items[i].item_level < 727
       /\ upgraded_items[i].slot \notin non_craftable_slots

\* C4: no slot is the target of two craft actions: the craft records name
\* pairwise distinct slots, and each crafted slot is in crafted_slots with its
\* item flagged crafted, which bars it from any later craft.
C4_NoSlotCraftedTwice ==
  /\ \A j, k \in DOMAIN crafted_items_log :
       j # k => crafted_items_log[j].slot # crafted_items_log[k].slot
  /\ \A k \in DOMAIN crafted_items_log :
       /\ crafted_items_log[k].slot \in crafted_slots
       /\ upgraded_items[ItemIn(crafted_items_log[k].slot)].crafted
       /\ ~can_craft_item(crafted_items_log[k].slot)

\* two crafts were applied and a later step followed them
C4_Witness ==
  /\ Len(crafted_items_log) >= 2
  /\ Len(upgrades_made) > crafted_items_log[2].step

\* C5: every step record has to > from, where from is the level the touched
\* item had right before the step and to the level it has right after; no
\* other item changes, so the average never decreases.
C5_StepsIncreaseLevel ==
  [][upgrades_made' # upgrades_made =>
       LET rec == upgrades_made'[Len(upgrades_made')]
           i == ItemIn(rec.slot)
       IN  /\ upgrades_made' = Append(upgrades_made, rec)
           /\ rec.from = upgraded_items[i].item_level
           /\ rec.to = upgraded_items'[i].item_level
           /\ rec.to > rec.from
           /\ \A j \in DOMAIN upgraded_items :
                j # i => upgraded_items'[j].item_level = upgraded_items[j].item_level
           /\ current_avg' > current_avg
           /\ current_avg' = SumLevels(upgraded_items')]_vars

\* a run with a craft record and an upgrade record in its log
C5_Witness ==
  /\ Len(upgrades_made) >= 2
  /\ \E k \in DOMAIN upgrades_made : upgrades_made[k].type = "crafted"
  /\ \E k \in DOMAIN upgrades_made : upgrades_made[k].type = "upgrade"

\* C6 as stated: no item of final_items is above 727, for every input.
C6_FinalLevelsAtMost727 ==
  Returned => \A i \in DOMAIN result.final_items :
                result.final_items[i].item_level <= 727

\* C6 as amended: no step takes an item above 727 - an item is above 727 in
\* final_items only if it was given at that very level.
C6_NoItemRaisedAbove727 ==
  /\ \A k \in DOMAIN upgrades_made : upgrades_made[k].to <= 727
  /\ Returned =>
       \A i \in DOMAIN result.final_items :
         \/ result.final_items[i].item_level <= 727
         \/ result.final_items[i].item_level = items[i].item_level

\* a run that took an item to 727 beside an item given above 727
C6_Witness ==
  /\ ReturnedFromLoop
  /\ \E i \in DOMAIN items :
       items[i].item_level < 727 /\ result.final_items[i].item_level = 727
  /\ \E i \in DOMAIN items : items[i].item_level > 727

\* C7: at most 100 actions are applied in a run: the step log never holds
\* more than 100 records, and a run the cap stopped below the target reports
\* goal_reached = false.
C7_StepCap ==
  /\ Len(upgrades_made) <= 100
  /\ ReturnedFromLoop =>
       /\ Len(result.upgrades) <= 100
       /\ (step > 100 /\ AvgLT(current_avg, NumItems, target_average))
            => result.goal_reached = FALSE

\* a run that the cap stopped after exactly 100 actions, below the target
C7_Witness ==
  /\ ReturnedFromLoop
  /\ Len(result.upgrades) = 100
  /\ step = 101
  /\ AvgLT(current_avg, NumItems, target_average)
  /\ result.goal_reached = FALSE

\* C8: when the initial average already meets the target the run returns
\* at once: all three totals 0, total cost 0, empty step log, no craft, and
\* final_items at the levels of the input.
C8_AlreadyMetReturnsUnchanged ==
  (Returned /\ TargetAlreadyMet) =>
    /\ result.resources_needed = <<0, 0, 0>>
    /\ result.total_resources_cost = 0
    /\ result.upgrades = <<>>
    /\ result.crafted_items = 0
    /\ result.crafted_items_log = <<>>
    /\ Len(result.final_items) = Len(items)
    /\ \A i \in DOMAIN items :
         result.final_items[i].item_level = items[i].item_level
    /\ step = 0 /\ upgrades_made = <<>> /\ crafted_items_count = 0
    /\ total_spent_resources = 0

\* an early return for a list with an item below the target and room for crafts
C8_Witness ==
  /\ Returned /\ TargetAlreadyMet
  /\ max_crafted_items >= 1
  /\ \E i \in DOMAIN items : items[i].item_level < target_average

\* C9: when the initial average already meets the target, the returned
\* record carries goal_reached = true.
C9_AlreadyMetFlagsGoal ==
  (Returned /\ TargetAlreadyMet) =>
    /\ "goal_reached" \in DOMAIN result
    /\ result.goal_reached = TRUE

\* C10: for a run that entered the loop, goal_reached is true exactly when the
\* average of the final items is at least the target, whatever ended the run.
C10_GoalFlagMatchesFinalAverage ==
  ReturnedFromLoop =>
    (result.goal_reached <=>
       AvgGE(SumLevels(result.final_items), Len(result.final_items), target_average))

\* a run that reached the target by its steps
C10_Witness ==
  /\ ReturnedFromLoop
  /\ result.goal_reached
  /\ Len(result.upgrades) >= 2

\* every item is at (or above) the ceiling of its tier
AllAtTierCeiling ==
  \A i \in DOMAIN items :
    items[i].item_level >= get_max_level_for_difficulty(items[i].difficulty)

\* Scenario C: no craft allowed, every item at its tier ceiling, target not met
ScenarioC == max_crafted_items = 0 /\ AllAtTierCeiling /\ ~TargetAlreadyMet

\* C11: in Scenario C every pass the loop can make ends in `break` (so the run
\* returns after one pass), nothing is crafted or upgraded, and the result
\* has goal_reached = false, no craft record and every item at its input level.
C11_SaturatedRunChangesNothing ==
  ScenarioC =>
    /\ in_pass => loop_body.ctl = "break"
    /\ upgrades_made = <<>> /\ crafted_items_log = <<>> /\ crafted_items_count = 0
    /\ pc # "start" => upgraded_items = items
    /\ Returned =>
         /\ result.goal_reached = FALSE
         /\ result.crafted_items = 0 /\ result.crafted_items_log = <<>>
         /\ result.upgrades = <<>>
         /\ result.final_items = items

\* a returned Scenario C run over two items, one of them below 727
C11_Witness ==
  /\ ScenarioC /\ Returned
  /\ Len(items) >= 2
  /\ \E i \in DOMAIN items : items[i].item_level < 727

\* the index of the item the step just logged acted on
LastActedItem == ItemIn(upgrades_made'[Len(upgrades_made')].slot)

\* a step record has just been appended to the log
StepLogged == upgrades_made' # upgrades_made

\* C12: under level_priority the item a step acts on is one whose
\* level right before the step is the minimum over all items.
C12_ActsOnLowestItem ==
  [][(strategy = "level_priority" /\ StepLogged) =>
       \A j \in DOMAIN upgraded_items :
         upgraded_items[LastActedItem].item_level <= upgraded_items[j].item_level]_vars

\* Scenario B: one special item at 681, target 727, cost_efficient, crafts
\* allowed, no budget, trinkets not excluded
ScenarioB ==
  /\ Len(items) = 1
  /\ items[1].is_special /\ items[1].item_level = 681
  /\ target_average = 727
  /\ strategy = "cost_efficient"
  /\ max_crafted_items >= 1
  /\ budget_limit = None
  /\ ~exclude_trinkets

\* C13: in Scenario B the craft cost 30 is below the ladder cost up to
\* min(tier ceiling, 727), the only pass made is a craft, and the run is
\* exactly one craft record 681 -> 727 costing (0, 0, 30), with the goal met.
C13_SpecialItemIsCrafted ==
  ScenarioB =>
    /\ sum3(SPECIAL_UPGRADE_COST_727)
         < sum3(get_upgrade_cost(681,
                  Min2(get_max_level_for_difficulty(items[1].difficulty), 727)))
    /\ in_pass => loop_body.ctl = "craft"
    /\ Len(upgrades_made) <= 1
    /\ \A k \in DOMAIN upgrades_made :
         /\ upgrades_made[k].type = "crafted"
         /\ upgrades_made[k].from = 681 /\ upgrades_made[k].to = 727
         /\ upgrades_made[k].cost = <<0, 0, 30>>
    /\ pc \in {"finish", "done"} => Len(upgrades_made) = 1
    /\ Returned =>
         /\ Len(result.upgrades) = 1
         /\ result.upgrades_count = 0 /\ result.crafted_items = 1
         /\ result.resources_needed = <<0, 0, 30>>
         /\ result.total_resources_cost = 30
         /\ result.final_items[1].item_level = 727
         /\ result.goal_reached

\* a returned Scenario B run
C13_Witness == ScenarioB /\ Returned /\ Len(result.upgrades) = 1

\* Scenario A: 16 ordinary Normal items, all at 681, target 690, balanced, no
\* budget
ScenarioA ==
  /\ Len(items) = 16
  /\ \A i \in DOMAIN items :
       /\ items[i].item_level = 681
       /\ items[i].difficulty = "Normal"
       /\ ~items[i].is_special
  /\ target_average = 690
  /\ strategy = "balanced"
  /\ budget_limit = None

\* C14: in Scenario A every step is an ordinary upgrade by one ladder rung of
\* an item at the minimum level, taken while the average is still below 690;
\* the totals are always (15 x steps, 0, 0); and the run returns with the
\* average at least 690 and goal_reached = true.
C14_LadderUpgradesOfLowestItem ==
  [][ScenarioA =>
       /\ StepLogged =>
            LET rec == upgrades_made'[Len(upgrades_made')]
            IN  /\ rec.type = "upgrade"
                /\ rec.to = get_next_upgrade_level(rec.from, "Normal")
                /\ rec.from = upgraded_items[LastActedItem].item_level
                /\ \A j \in DOMAIN upgraded_items :
                     rec.from <= upgraded_items[j].item_level
                /\ AvgLT(current_avg, NumItems, target_average)
       /\ total_resources' = <<15 * Len(upgrades_made'), 0, 0>>
       /\ crafted_items_count' = 0
       /\ Returned' =>
            /\ result'.goal_reached
            /\ AvgGE(SumLevels(result'.final_items), 16, 690)
            /\ result'.resources_needed = <<15 * Len(result'.upgrades), 0, 0>>
            /\ result'.total_resources_cost = 15 * Len(result'.upgrades)]_vars

\* a returned Scenario A run with crafts allowed: 43 rungs, 645 of resource 1
C14_Witness ==
  /\ ScenarioA /\ Returned
  /\ max_crafted_items >= 1 /\ ~exclude_trinkets
  /\ Len(result.upgrades) = 43
  /\ result.resources_needed = <<645, 0, 0>>

(***************************************************************************)
(* determine_item_difficulty applied to an item of the gear                *)
(***************************************************************************)
\* identifiers of the enumerated bonus lists: the first and the last of each
\* tier's set, and one that is in no set
BonusIds == {1540, 6704, 1527, 13446, 1518, 12233, 4786}

\* levels on both sides of each threshold of the level heuristic
ItemLevels == {679, 680, 706, 707, 719, 720}

BonusLists == UNION { [1..n -> BonusIds] : n \in 0..MaxBonuses }

GearItems ==
  { [name |-> nm, bonuses_field |-> "list", bonuses |-> bl, item_level |-> lv] :
      nm \in SUBSET {SPECIAL_ITEMS[k] : k \in DOMAIN SPECIAL_ITEMS},
      bl \in BonusLists, lv \in ItemLevels }
  \cup
  { [name |-> nm, bonuses_field |-> bf, bonuses |-> <<>>, item_level |-> lv] :
      nm \in SUBSET {SPECIAL_ITEMS[k] : k \in DOMAIN SPECIAL_ITEMS},
      bf \in {"absent", "not_a_list"}, lv \in ItemLevels }

\* no optimizer has been made yet
NoOptimizer ==
  /\ items = <<>>
  /\ target_average = 0
  /\ strategy = "balanced"
  /\ max_crafted_items = 0
  /\ budget_limit = None
  /\ exclude_trinkets = FALSE
  /\ crafted_items_count = 0
  /\ crafted_items_log = <<>>
  /\ crafted_slots = {}
  /\ step_history = <<>>
  /\ total_spent_resources = 0
  /\ upgraded_items = <<>>
  /\ total_resources = <<0, 0, 0>>
  /\ upgrades_made = <<>>
  /\ current_avg = 0
  /\ step = 0
  /\ pass_parity = 0
  /\ pc = "none"
  /\ result = <<>>

DifficultyInit ==
  /\ item_data \in GearItems
  /\ item_difficulty = Undetermined
  /\ NoOptimizer
  /\ NoComparison

\* difficulty = determine_item_difficulty(item_data, item_data['item_level'])
DetermineDifficulty ==
  /\ item_difficulty = Undetermined
  /\ item_difficulty' = determine_item_difficulty(item_data, item_data.item_level)
  /\ UNCHANGED <<item_data, compare_vars, config, self_vars, local_vars,
                 pass_parity, pc, result>>

DifficultyNext == DetermineDifficulty

DifficultySpec == DifficultyInit /\ [][DifficultyNext]_vars

Determined == item_difficulty # Undetermined

\* the item carries an identifier of the tier's set
CarriesBonusOf(tier) ==
  /\ item_data.bonuses_field = "list"
  /\ \E b \in DOMAIN item_data.bonuses :
       \E k \in DOMAIN difficulty_map :
         /\ difficulty_map[k].difficulty = tier
         /\ item_data.bonuses[b] \in difficulty_map[k].bonus_list

PlainName == item_data.name = {}

\* C15: an item whose name is not special and that carries an identifier of a
\* tier set is classified as the first of Mythic, Heroic, Normal it carries an
\* identifier of, whatever the order of its bonus list and whatever its level
C15_BonusPrecedence ==
  (Determined /\ PlainName) =>
    /\ CarriesBonusOf("Mythic") => item_difficulty = "Mythic"
    /\ (~CarriesBonusOf("Mythic") /\ CarriesBonusOf("Heroic"))
         => item_difficulty = "Heroic"
    /\ (~CarriesBonusOf("Mythic") /\ ~CarriesBonusOf("Heroic")
          /\ CarriesBonusOf("Normal")) => item_difficulty = "Normal"

\* a Normal identifier listed before a Mythic one, at a level the heuristic
\* would call Normal
C15_Witness ==
  /\ Determined /\ PlainName
  /\ item_data.bonuses = <<1518, 1540>>
  /\ item_data.item_level = 680
  /\ item_difficulty = "Mythic"

\* the name holds exactly one of the special names
NamesOnly(special_item) == item_data.name = {special_item}

\* C16: an item whose name holds one of the special names gets the tier fixed
\* for that name (Ring of the Panoply: Heroic, the other three: Mythic),
\* whatever its bonus identifiers and its level
C16_NameOverride ==
  Determined =>
    /\ NamesOnly("Ring of the Panoply") => item_difficulty = "Heroic"
    /\ (\/ NamesOnly("Improvised Seaforium Pacemaker")
        \/ NamesOnly("Rune-Branded Waistband")
        \/ NamesOnly("Everforged Warglaive")) => item_difficulty = "Mythic"

\* the ring with a Mythic identifier at a Mythic level, and the waistband with
\* a Normal identifier below the ladder, follow their names
C16_Witness ==
  /\ Determined
  /\ \/ /\ NamesOnly("Ring of the Panoply")
        /\ item_data.bonuses = <<1540>>
        /\ item_data.item_level = 720
        /\ item_difficulty = "Heroic"
     \/ /\ NamesOnly("Rune-Branded Waistband")
        /\ item_data.bonuses = <<1518>>
        /\ item_data.item_level = 679
        /\ item_difficulty = "Mythic"

\* no identifier of the item is in a tier set (no list counts as no identifier)
NoKnownBonus ==
  ~CarriesBonusOf("Mythic") /\ ~CarriesBonusOf("Heroic") /\ ~CarriesBonusOf("Normal")

\* C17: an item whose name is not special and none of whose identifiers is in
\* a tier set (the bonus field may be absent or not a list) is Mythic from
\* level 720, Heroic from 707 to 719, Normal from 680 to 706, and has the
\* empty tier below 680
C17_LevelHeuristic ==
  (Determined /\ PlainName /\ NoKnownBonus) =>
    /\ item_data.item_level >= 720 => item_difficulty = "Mythic"
    /\ (707 <= item_data.item_level /\ item_data.item_level < 720)
         => item_difficulty = "Heroic"
    /\ (680 <= item_data.item_level /\ item_data.item_level < 707)
         => item_difficulty = "Normal"
    /\ item_data.item_level < 680 => item_difficulty = ""

\* a bonus field that is not a list, at the lowest Mythic level
C17_Witness ==
  /\ Determined /\ PlainName
  /\ item_data.bonuses_field = "not_a_list"
  /\ item_data.item_level = 720
  /\ item_difficulty = "Mythic"

\* a run on an empty item list towards a positive target
EmptyRun == items = <<>> /\ target_average > 0

\* C18: on an empty item list the average is 0 and the run goes through to its
\* return; for a positive target the result has no step record, zero cost and
\* goal_reached false
C18_EmptyListRun ==
  EmptyRun =>
    /\ current_average = 0
    /\ upgrades_made = <<>>
    /\ crafted_items_log = <<>>
    /\ total_resources = <<0, 0, 0>>
    /\ total_spent_resources = 0
    /\ ~Returned => ENABLED Next
    /\ Returned =>
         /\ "goal_reached" \in DOMAIN result
         /\ result.goal_reached = FALSE
         /\ result.upgrades = <<>>
         /\ result.crafted_items_log = <<>>
         /\ result.crafted_items = 0
         /\ result.resources_needed = <<0, 0, 0>>
         /\ result.total_resources_cost = 0
         /\ result.final_average = 0
         /\ result.final_items = <<>>

C18_Witness ==
  /\ EmptyRun /\ Returned
  /\ max_crafted_items >= 1
  /\ result.goal_reached = FALSE
  /\ result.upgrades = <<>>

(***************************************************************************)
(* compare_strategies, called after a run of one strategy on the same      *)
(* items and limits                                                        *)
(***************************************************************************)
\* the strategies list of compare_strategies
COMPARED_STRATEGIES == <<"cost_efficient", "fastest", "balanced", "level_priority">>

\* item lists of the compared runs
ComparedRosters ==
  {r \in SmallRosters : Len(r) <= MaxComparedItems} \cup SpecialRosters

\* compare_strategies gives the optimizer no exclude_trinkets, so the run it
\* is compared with leaves it at its default too
CompareInit ==
  /\ Init
  /\ items \in ComparedRosters
  /\ exclude_trinkets = FALSE

\* the call of compare_strategies, once the standalone run has returned
CompareStrategies ==
  /\ pc = "done"
  /\ strategies = <<>>
  /\ comparison = <<>>
  /\ standalone' = [strategy |-> strategy, result |-> result]
  /\ strategies' = COMPARED_STRATEGIES
  /\ pc' = "compare"
  /\ UNCHANGED <<item_data, item_difficulty, comparison, config, self_vars,
                 local_vars, pass_parity, result>>

\* mutant of NewOptimizer: one optimizer serves every strategy, only its
\* strategy is set anew
NewOptimizer_reused ==
  /\ pc = "compare"
  /\ strategies # <<>>
  /\ strategy' = Head(strategies)
  /\ exclude_trinkets' = FALSE
  /\ upgraded_items' = <<>>
  /\ total_resources' = <<0, 0, 0>>
  /\ upgrades_made' = <<>>
  /\ current_avg' = 0
  /\ step' = 0
  /\ pass_parity' = 0
  /\ result' = <<>>
  /\ pc' = "start"
  /\ UNCHANGED <<caller_vars, items, target_average, max_crafted_items,
                 budget_limit, self_vars>>

\* optimizer = UpgradeOptimizer(items.copy(), target_average, strategy,
\* max_crafted_items, budget_limit): __init__ for the next strategy
NewOptimizer ==
  /\ pc = "compare"
  /\ strategies # <<>>
  /\ strategy' = Head(strategies)
  /\ exclude_trinkets' = FALSE
  /\ crafted_items_count' = 0
  /\ crafted_items_log' = <<>>
  /\ crafted_slots' = {}
  /\ step_history' = <<>>
  /\ total_spent_resources' = 0
  /\ upgraded_items' = <<>>
  /\ total_resources' = <<0, 0, 0>>
  /\ upgrades_made' = <<>>
  /\ current_avg' = 0
  /\ step' = 0
  /\ pass_parity' = 0
  /\ result' = <<>>
  /\ pc' = "start"
  /\ UNCHANGED <<caller_vars, items, target_average, max_crafted_items,
                 budget_limit>>

\* comparison[strategy] = {...}
comparison_entry ==
  [ strategy      |-> strategy,
    total_cost    |-> result.total_resources_cost,
    steps         |-> Len(result.upgrades) + Len(result.crafted_items_log),
    final_average |-> result.final_average,
    crafted_items |-> result.crafted_items ]

RecordStrategy ==
  /\ pc = "done"
  /\ strategies # <<>>
  /\ comparison' = Append(comparison, comparison_entry)
  /\ strategies' = Tail(strategies)
  /\ pc' = "compare"
  /\ UNCHANGED <<item_data, item_difficulty, standalone, config, self_vars,
                 local_vars, pass_parity, result>>

\* return comparison
ReturnComparison ==
  /\ pc = "compare"
  /\ strategies = <<>>
  /\ pc' = "compared"
  /\ UNCHANGED <<caller_vars, config, self_vars, local_vars, pass_parity, result>>

CompareNext ==
  \/ AlreadyReached
  \/ BeginSimulation
  \/ LoopExit
  \/ BudgetExhausted
  \/ CraftStep
  \/ UpgradeStep
  \/ Retry
  \/ NoCandidate
  \/ BuildResult
  \/ CompareStrategies
  \/ NewOptimizer
  \/ RecordStrategy
  \/ ReturnComparison

CompareSpec == CompareInit /\ [][CompareNext]_vars

\* compare_strategies is running or has returned
Comparing == pc = "compared" \/ strategies # <<>>

\* C19: each entry of the comparison has the total cost, final average and
\* craft count of the standalone run of its strategy on the same items and
\* limits, and every run of the comparison starts from an optimizer that has
\* crafted nothing, spent nothing and has no step history
C19_RunsAreIndependent ==
  Comparing =>
    /\ \A k \in DOMAIN comparison :
         comparison[k].strategy = standalone.strategy =>
           /\ comparison[k].total_cost = standalone.result.total_resources_cost
           /\ comparison[k].final_average = standalone.result.final_average
           /\ comparison[k].crafted_items = standalone.result.crafted_items
    /\ pc = "start" =>
         /\ crafted_items_count = 0
         /\ crafted_items_log = <<>>
         /\ crafted_slots = {}
         /\ step_history = <<>>
         /\ total_spent_resources = 0

\* the comparison has returned; its last strategy is the one run standalone,
\* and a run before it crafted an item and paid for it
C19_Witness ==
  /\ pc = "compared"
  /\ Len(comparison) = 4
  /\ standalone.strategy = "level_priority"
  /\ comparison[4].total_cost = standalone.result.total_resources_cost
  /\ standalone.result.total_resources_cost > 0
  /\ comparison[2].crafted_items >= 1
  /\ comparison[2].total_cost # comparison[4].total_cost

\* the item the pass that starts in the current state has chosen when it comes
\* to the craft block
chosen_item ==
  Then(get_priority_items_for_upgrade(upgraded_items, current_avg, strategy),
       LAMBDA priority_items : choose_item(priority_items))

\* the pass comes to the craft block with an item below 727 whose slot may be
\* crafted
CraftIsOpen(loc) ==
  /\ loc.ctl = "run"
  /\ upgraded_items[loc.min_item_idx].item_level < 727
  /\ can_craft_item(upgraded_items[loc.min_item_idx].slot)

\* min(tierCeiling, 727) of an item
UpgradeCeiling(i) ==
  Min2(get_max_level_for_difficulty(upgraded_items[i].difficulty), 727)

\* cumulative ladder cost from the item's level to min(tierCeiling, 727)
UpgradeCostToCeiling(i) ==
  IF upgraded_items[i].item_level < UpgradeCeiling(i)
    THEN sum3(get_upgrade_cost(upgraded_items[i].item_level, UpgradeCeiling(i)))
    ELSE 0

CraftCostOf(i) == sum3(craft_cost_for(upgraded_items[i].is_special))

\* the step appends one record of the given type for item i
StepAppliedTo(i, type) ==
  /\ Len(upgrades_made') = Len(upgrades_made) + 1
  /\ upgrades_made'[Len(upgrades_made')].type = type
  /\ upgrades_made'[Len(upgrades_made')].slot = upgraded_items[i].slot
  /\ \A j \in DOMAIN upgraded_items :
       j # i => upgraded_items'[j] = upgraded_items[j]

CraftAppliedTo(i) ==
  StepAppliedTo(i, "crafted") /\ upgraded_items'[i].item_level = 727

UpgradeAppliedTo(i) ==
  /\ StepAppliedTo(i, "upgrade")
  /\ upgraded_items'[i].item_level > upgraded_items[i].item_level
  /\ upgraded_items'[i].crafted = upgraded_items[i].crafted

CostEfficientPass ==
  in_pass /\ strategy = "cost_efficient" /\ budget_limit = None

\* C20 as stated: under cost_efficient with no budget limit, an item below 727
\* whose slot may be crafted is crafted if and only if craftCost < upgradeCost,
\* and is given an ordinary upgrade otherwise
C20_CraftIffCheaper ==
  [][ (CostEfficientPass /\ CraftIsOpen(chosen_item)) =>
        IF CraftCostOf(chosen_item.min_item_idx)
             < UpgradeCostToCeiling(chosen_item.min_item_idx)
          THEN CraftAppliedTo(chosen_item.min_item_idx)
          ELSE UpgradeAppliedTo(chosen_item.min_item_idx) ]_vars

\* the item can still take an ordinary upgrade
HasHeadroom(i) == upgraded_items[i].item_level < UpgradeCeiling(i)

\* C20, amended: the comparison decides only for an item that has upgrade
\* headroom; an item with none (at or above min(tierCeiling, 727)) is crafted
\* although craftCost < upgradeCost is false
C20_CraftIffCheaperOrSaturated ==
  [][ (CostEfficientPass /\ CraftIsOpen(chosen_item)) =>
        IF \/ CraftCostOf(chosen_item.min_item_idx)
                < UpgradeCostToCeiling(chosen_item.min_item_idx)
           \/ ~HasHeadroom(chosen_item.min_item_idx)
          THEN CraftAppliedTo(chosen_item.min_item_idx)
          ELSE UpgradeAppliedTo(chosen_item.min_item_idx) ]_vars

\* a cost_efficient run with no budget limit has crafted an item that had
\* headroom (678, unknown tier: the ladder to 727 costs more than a craft),
\* upgraded one whose ladder was cheaper (700 Normal) and crafted it once it
\* stood at its tier's ceiling (704)
C20_Witness ==
  /\ Returned
  /\ strategy = "cost_efficient"
  /\ budget_limit = None
  /\ "upgrades" \in DOMAIN result
  /\ \E k \in DOMAIN result.upgrades :
       result.upgrades[k].type = "crafted" /\ result.upgrades[k].from = 678
  /\ \E k \in DOMAIN result.upgrades :
       result.upgrades[k].type = "upgrade" /\ result.upgrades[k].from = 700
  /\ \E k \in DOMAIN result.upgrades :
       result.upgrades[k].type = "crafted" /\ result.upgrades[k].from = 704

\* target minus the running average exceeds 10
RunningGapIsLarge ==
  target_average * NumItems - current_avg > 10 * NumItems

\* the decision of the balanced rule for item i, the gap taken from the
\* running average
BalancedDecision(i) ==
  IF RunningGapIsLarge
    THEN (IF 2 * CraftCostOf(i) > 3 * UpgradeCostToCeiling(i) THEN "upgrade" ELSE "craft")
    ELSE (IF 5 * UpgradeCostToCeiling(i) > 6 * CraftCostOf(i) THEN "craft" ELSE "upgrade")

BalancedPass == in_pass /\ strategy = "balanced" /\ budget_limit = None

\* C21: under balanced with no budget limit, for a chosen item below 727 whose
\* slot may be crafted, the decision is craft when the target exceeds the
\* current average by more than 10 unless craftCost > 1.5 x upgradeCost, and
\* upgrade otherwise unless upgradeCost > 1.2 x craftCost; the step applied
\* follows the decision (an item with no headroom can only be crafted)
C21_BalancedDecision ==
  [][ (BalancedPass /\ CraftIsOpen(chosen_item)) =>
        IF \/ BalancedDecision(chosen_item.min_item_idx) = "craft"
           \/ ~HasHeadroom(chosen_item.min_item_idx)
          THEN CraftAppliedTo(chosen_item.min_item_idx)
          ELSE UpgradeAppliedTo(chosen_item.min_item_idx) ]_vars

\* the step appends an ordinary upgrade record
UpgradeLogged ==
  /\ Len(upgrades_made') = Len(upgrades_made) + 1
  /\ upgrades_made'[Len(upgrades_made')].type = "upgrade"

\* C22: under fastest with no budget limit, a chosen item below 727 whose slot
\* may be crafted is crafted to 727, and an ordinary upgrade is applied only in
\* a pass whose chosen item may not be crafted
C22_FastestCrafts ==
  [][ (in_pass /\ strategy = "fastest" /\ budget_limit = None) =>
        /\ CraftIsOpen(chosen_item) => CraftAppliedTo(chosen_item.min_item_idx)
        /\ UpgradeLogged =>
             /\ chosen_item.ctl = "run"
             /\ ~can_craft_item(upgraded_items[chosen_item.min_item_idx].slot) ]_vars

\* a fastest run with no budget limit crafted an item that had headroom, and
\* upgraded another once the craft limit was used up
C22_Witness ==
  /\ Returned
  /\ strategy = "fastest"
  /\ budget_limit = None
  /\ max_crafted_items = 1
  /\ "upgrades" \in DOMAIN result
  /\ Len(result.upgrades) >= 2
  /\ result.upgrades[1].type = "crafted"
  /\ result.upgrades[1].from = 700
  /\ result.upgrades[2].type = "upgrade"

\* the step appends a craft record for the item in the record's slot
CraftLogged ==
  /\ Len(upgrades_made') = Len(upgrades_made) + 1
  /\ upgrades_made'[Len(upgrades_made')].type = "crafted"

\* C23: under level_priority a craft is applied only to an item that has no
\* ordinary upgrade headroom left (its level is at least min(tierCeiling, 727)),
\* with or without a budget limit; and a chosen item that has headroom is given
\* an ordinary upgrade (where no budget limit can stand in the way)
C23_LevelPriorityCraftsOnlySaturated ==
  [][ strategy = "level_priority" =>
        /\ CraftLogged => ~HasHeadroom(LastActedItem)
        /\ (/\ in_pass
            /\ budget_limit = None
            /\ chosen_item.ctl = "run"
            /\ HasHeadroom(chosen_item.min_item_idx))
             => UpgradeAppliedTo(chosen_item.min_item_idx) ]_vars

\* a level_priority run upgraded an item up to its tier's ceiling and crafted
\* it only there
C23_Witness ==
  /\ Returned
  /\ strategy = "level_priority"
  /\ "upgrades" \in DOMAIN result
  /\ Len(result.upgrades) >= 3
  /\ result.upgrades[1].type = "upgrade" /\ result.upgrades[1].from = 700
  /\ result.upgrades[2].type = "upgrade" /\ result.upgrades[2].to = 704
  /\ result.upgrades[3].type = "crafted" /\ result.upgrades[3].from = 704
  /\ result.upgrades[3].slot = result.upgrades[1].slot

\* a pass under a budget limit that comes to the craft block with an item
\* below 727 whose slot may be crafted
BudgetedDecision == in_pass /\ budget_limit # None /\ CraftIsOpen(chosen_item)

\* spending cost would exceed what is left of the budget
ExceedsBudget(cost) == total_spent_resources + cost > budget_limit

RungsAbove(level) ==
  {UPGRADE_LEVELS[i] : i \in {j \in DOMAIN UPGRADE_LEVELS : UPGRADE_LEVELS[j] > level}}

\* C25: every ordinary upgrade step takes the item to the smallest ladder rung
\* strictly above the level it leaves, and that rung exceeds neither the
\* ceiling of the item's tier nor 727, special or not; a step that takes an
\* item above its tier's ceiling is a craft
C25_UpgradeToNextRung ==
  \A k \in DOMAIN upgrades_made :
    /\ upgrades_made[k].type = "upgrade" =>
         /\ upgrades_made[k].to \in RungsAbove(upgrades_made[k].from)
         /\ \A rung \in RungsAbove(upgrades_made[k].from) : upgrades_made[k].to <= rung
         /\ upgrades_made[k].to
              <= get_max_level_for_difficulty(items[ItemIn(upgrades_made[k].slot)].difficulty)
         /\ upgrades_made[k].to <= 727
    /\ upgrades_made[k].to
         > get_max_level_for_difficulty(items[ItemIn(upgrades_made[k].slot)].difficulty)
         => upgrades_made[k].type = "crafted"

\* a special Normal item is upgraded rung by rung from 681 up to 704, its
\* tier's ceiling, and only a craft takes it above
C25_Witness ==
  /\ Len(upgrades_made) >= 8
  /\ items[ItemIn(upgrades_made[1].slot)].is_special
  /\ items[ItemIn(upgrades_made[1].slot)].difficulty = "Normal"
  /\ upgrades_made[1].type = "upgrade"
  /\ upgrades_made[1].from = 681 /\ upgrades_made[1].to = 684
  /\ upgrades_made[7].type = "upgrade" /\ upgrades_made[7].to = 704
  /\ upgrades_made[8].type = "crafted" /\ upgrades_made[8].from = 704


(***************************************************************************)
(* The price of one ordinary upgrade step                                  *)
(***************************************************************************)

\* the price band of a level: 15 of resource 1 below 691, of resource 2 from
\* 691 up to but excluding 704, of resource 3 from 704 on
BandCost(level) ==
  IF level < 691 THEN <<RUNG_COST, 0, 0>>
  ELSE IF level < 704 THEN <<0, RUNG_COST, 0>>
  ELSE <<0, 0, RUNG_COST>>

\* C26: every ordinary upgrade step on record costs exactly 15 of exactly one
\* resource, the one of the price band of the level the item leaves, for every
\* starting level, those off the ladder and those below its first rung (681)
\* included
C26_UpgradeStepCost ==
  \A k \in DOMAIN upgrades_made :
    upgrades_made[k].type = "upgrade"
      => upgrades_made[k].cost = BandCost(upgrades_made[k].from)

\* the same statement for the steps that leave a level of 681 or more: these
\* are priced as stated, so the free step is confined to starts below 681
C26_StepCostFromTheLadder ==
  \A k \in DOMAIN upgrades_made :
    upgrades_made[k].type = "upgrade" /\ upgrades_made[k].from >= 681
      => upgrades_made[k].cost = BandCost(upgrades_made[k].from)


(***************************************************************************)
(* The craft step                                                          *)
(***************************************************************************)

\* C27: every craft step on record took its item to exactly 727, where the
\* item still stands, marked crafted and with its slot among the used ones, and
\* cost no resource 1 or 2 and 90 of resource 3, or 30 if the item is special
C27_CraftStep ==
  /\ \A k \in DOMAIN upgrades_made :
       upgrades_made[k].type = "crafted" =>
         /\ upgrades_made[k].to = 727
         /\ upgrades_made[k].slot \in crafted_slots
         /\ upgraded_items[ItemIn(upgrades_made[k].slot)].item_level = 727
         /\ upgraded_items[ItemIn(upgrades_made[k].slot)].crafted
         /\ upgrades_made[k].cost =
              IF upgraded_items[ItemIn(upgrades_made[k].slot)].is_special
                THEN <<0, 0, 30>> ELSE <<0, 0, 90>>
  /\ \A i \in DOMAIN upgraded_items :
       upgraded_items[i].crafted =>
         \E k \in DOMAIN upgrades_made :
           upgrades_made[k].type = "crafted"
             /\ upgrades_made[k].slot = upgraded_items[i].slot

\* a run has crafted a special item for 30 and an ordinary one for 90
C27_Witness ==
  /\ Len(upgrades_made) >= 2
  /\ upgrades_made[1].type = "crafted" /\ upgrades_made[1].cost = <<0, 0, 30>>
  /\ upgrades_made[2].type = "crafted" /\ upgrades_made[2].cost = <<0, 0, 90>>
  /\ upgraded_items[ItemIn(upgrades_made[1].slot)].is_special
  /\ ~upgraded_items[ItemIn(upgrades_made[2].slot)].is_special
  /\ crafted_items_count = 2


(***************************************************************************)
(* The early end of a run                                                  *)
(***************************************************************************)

\* the item is eligible for a craft: slot not excluded and not crafted, level
\* below 727, craft count below max_crafted_items
CraftEligible(i) ==
  /\ can_craft_item(upgraded_items[i].slot)
  /\ upgraded_items[i].item_level < 727

\* a run without budget that the loop left short of the target before the
\* step limit
EndedEarly ==
  /\ ReturnedFromLoop
  /\ budget_limit = None
  /\ ~result.goal_reached
  /\ step <= max_steps

\* C28: with no budget limit, a run that ends with goal_reached = false after
\* fewer than 100 steps ends only where nothing is eligible: no item has room
\* for an ordinary upgrade (level < min(tierCeiling, 727)) and no item is
\* eligible for a craft
C28_EndsOnlyWhenNothingEligible ==
  EndedEarly =>
    \A i \in DOMAIN upgraded_items : ~HasHeadroom(i) /\ ~CraftEligible(i)


(***************************************************************************)
(* Trinket exclusion                                                       *)
(***************************************************************************)

\* C29: with exclude_trinkets set no craft ever targets slot trinket1 or
\* trinket2, under every strategy and in every branch that picks the item to
\* craft: no craft record names such a slot, no such slot is used, no trinket
\* is marked crafted
C29_TrinketsNeverCrafted ==
  exclude_trinkets =>
    /\ \A k \in DOMAIN upgrades_made :
         upgrades_made[k].type = "crafted"
           => upgrades_made[k].slot \notin NON_CRAFTABLE_SLOTS
    /\ \A k \in DOMAIN crafted_items_log :
         crafted_items_log[k].slot \notin NON_CRAFTABLE_SLOTS
    /\ crafted_slots \cap NON_CRAFTABLE_SLOTS = {}
    /\ \A i \in DOMAIN upgraded_items :
         upgraded_items[i].slot \in NON_CRAFTABLE_SLOTS => ~upgraded_items[i].crafted

\* with the exclusion set a run has returned short of the target: it crafted
\* the other item and left the trinket below 727 with a craft to spare
C29_Witness ==
  /\ exclude_trinkets
  /\ ReturnedFromLoop
  /\ ~result.goal_reached
  /\ crafted_items_count = 1
  /\ max_crafted_items = 2
  /\ \E i \in DOMAIN upgraded_items :
       /\ upgraded_items[i].slot \in NON_CRAFTABLE_SLOTS
       /\ upgraded_items[i].item_level < 727

\* C29, second half: with the exclusion off a trinket is crafted like any
\* other item
C29_TrinketCraftedWhenAllowed ==
  /\ ~exclude_trinkets
  /\ \E k \in DOMAIN upgrades_made :
       upgrades_made[k].type = "crafted" /\ upgrades_made[k].slot = "trinket1"


(***************************************************************************)
(* The candidate of a pass                                                 *)
(***************************************************************************)

\* the item a pass has selected once the item at the head of the priority
\* list has been replaced if it stands at 727 or above
selected_candidate ==
  Then(get_priority_items_for_upgrade(upgraded_items, current_avg, strategy),
       LAMBDA priority_items :
         skip_maxed_item(priority_items, first_choice(priority_items)))

\* the items a pass may select: level below 727, slot not crafted
Selectable ==
  {i \in DOMAIN upgraded_items : /\ upgraded_items[i].item_level < 727
                                 /\ upgraded_items[i].slot \notin crafted_slots}

\* NumItems times the score of item i: -level under level_priority, otherwise
\* 2 x (currentAverage - level) + (min(727, tierCeiling) - level), plus 50 for
\* a special item; current_avg is the sum of the levels
Score(i) ==
  IF strategy = "level_priority"
    THEN 0 - NumItems * upgraded_items[i].item_level
    ELSE 2 * (current_avg - NumItems * upgraded_items[i].item_level)
           + NumItems * (UpgradeCeiling(i) - upgraded_items[i].item_level)
           + (IF upgraded_items[i].is_special THEN 50 * NumItems ELSE 0)

\* C30: at the start of each pass the candidate selected is the item with the
\* highest score among the items below 727 whose slot is not crafted, the
\* earliest in input order among equals
C30_CandidateIsBestSelectable ==
  (in_pass /\ Selectable # {}) =>
    Then(selected_candidate,
         LAMBDA loc :
           /\ loc.ctl = "run"
           /\ loc.min_item_idx \in Selectable
           /\ \A j \in Selectable :
                \/ Score(loc.min_item_idx) > Score(j)
                \/ Score(loc.min_item_idx) = Score(j) /\ loc.min_item_idx <= j)

\* a pass starts with a crafted special item at 727 at the head of the
\* priority list and selects the other item, which is below 727
C30_Witness ==
  /\ in_pass
  /\ strategy = "balanced"
  /\ NumItems = 2
  /\ upgraded_items[1].crafted /\ upgraded_items[1].is_special
  /\ Score(1) > Score(2)
  /\ Selectable = {2}
  /\ selected_candidate.min_item_idx = 2


(***************************************************************************)
(* The cycle guard                                                         *)
(***************************************************************************)

\* the pair (slot, level) of item i occurs 3 or more times among the last 5
\* entries of the step history
OccursThrice(i) ==
  Cardinality({k \in DOMAIN step_history :
                 /\ k > Len(step_history) - 5
                 /\ step_history[k].slot = upgraded_items[i].slot
                 /\ step_history[k].level = upgraded_items[i].item_level}) >= 3

\* the pass that starts in the current state has selected an item below 727
\* that is cycling
SelectedIsCycling ==
  /\ in_pass
  /\ selected_candidate.ctl = "run"
  /\ selected_candidate.current_level < 727
  /\ OccursThrice(selected_candidate.min_item_idx)


\* the other ranked candidates below 727 that are not cycling, best first
OtherUncycled ==
  SelectSeq(get_priority_items_for_upgrade(upgraded_items, current_avg, strategy),
            LAMBDA i : /\ i # selected_candidate.min_item_idx
                       /\ upgraded_items[i].item_level < 727
                       /\ ~OccursThrice(i))

\* the pass with the cycle guard applied to the selected item
guarded_candidate ==
  Then(get_priority_items_for_upgrade(upgraded_items, current_avg, strategy),
       LAMBDA priority_items :
         cycle_guard(priority_items,
                     skip_maxed_item(priority_items, first_choice(priority_items))))

\* C31, the test and the switch: an item counts as cycling exactly when its
\* (slot, level) pair occurs 3 or more times among the last 5 history entries,
\* and a pass whose selected item is cycling goes on with the highest-ranked
\* other candidate that is below 727 and not cycling, if there is one
C31_GuardSwitches ==
  /\ \A i \in DOMAIN upgraded_items :
       is_cycling_detected(step_history, upgraded_items[i].slot,
                           upgraded_items[i].item_level) <=> OccursThrice(i)
  /\ (SelectedIsCycling /\ OtherUncycled # <<>>) =>
       /\ guarded_candidate.ctl = "run"
       /\ guarded_candidate.min_item_idx = OtherUncycled[1]

\* C31: the cycle guard as stated. In addition to the test and the switch,
\* a pass whose selected item is cycling while no other candidate is below 727
\* and not cycling either crafts the selected item or ends the run
C31_CycleGuard ==
  [][ /\ C31_GuardSwitches
      /\ (SelectedIsCycling /\ OtherUncycled = <<>>) =>
           \/ CraftAppliedTo(selected_candidate.min_item_idx)
           \/ pc' = "finish" ]_vars


(***************************************************************************)
(* The step log                                                            *)
(***************************************************************************)

\* the level the records before the k-th left on the item of the k-th record:
\* the 'to' of the latest of them on that slot, else the level the item came with
LevelBefore(log, k) ==
  Then({j \in 1..(k - 1) : log[j].slot = log[k].slot},
       LAMBDA earlier : IF earlier = {}
                          THEN items[ItemIn(log[k].slot)].item_level
                          ELSE log[MaxOf(earlier)].to)

\* the records are numbered 1, 2, ..., n in log order, crafts and upgrades in
\* the one sequence, and each starts from the level its item was left at
LogIsOrdered(log) ==
  \A k \in DOMAIN log :
    /\ log[k].step = k
    /\ log[k].type \in {"upgrade", "crafted"}
    /\ log[k].from = LevelBefore(log, k)

\* C32: the step log is append-only and ordered: a step of the run leaves the
\* records already written as they are and adds at most one at the end, the
\* records carry the sequence indices 1, 2, ..., n without gap or duplicate,
\* each record's 'from' is the level the previous record on that item left (or
\* the item's initial level), and the result returns that log
C32_StepLogIsOrderedAuditTrail ==
  [][ /\ \/ upgrades_made' = upgrades_made
         \/ /\ Len(upgrades_made') = Len(upgrades_made) + 1
            /\ SubSeq(upgrades_made', 1, Len(upgrades_made)) = upgrades_made
      /\ LogIsOrdered(upgrades_made')
      /\ (pc' = "done" /\ ~TargetAlreadyMet') => result'.upgrades = upgrades_made'
    ]_vars

\* a returned log of three records: an upgrade of one item, the craft of
\* another, and a further upgrade of the first from where its first left it
C32_Witness ==
  /\ ReturnedFromLoop
  /\ Len(result.upgrades) = 3
  /\ result.upgrades[1].type = "upgrade"
  /\ result.upgrades[2].type = "crafted"
  /\ result.upgrades[3].type = "upgrade"
  /\ result.upgrades[3].slot = result.upgrades[1].slot
  /\ result.upgrades[3].from = result.upgrades[1].to
  /\ result.upgrades[3].step = 3


(***************************************************************************)
(* Progress of a run without budget                                        *)
(***************************************************************************)

\* C33: with no budget limit every pass of the main loop either applies exactly
\* one action, which appends one step record and advances the step counter, or
\* ends the run; no pass restarts the loop without progress, and the run makes
\* at most 100 actions
C33_EveryPassProgresses ==
  [][ (in_pass /\ budget_limit = None) =>
        /\ \/ /\ Len(upgrades_made') = Len(upgrades_made) + 1
              /\ step' = step + 1
              /\ pc' = "loop"
           \/ /\ pc' = "finish"
              /\ upgrades_made' = upgrades_made
              /\ step' = step
        /\ Len(upgrades_made') <= 100 ]_vars


\* a run without budget made three actions in three passes and ended in the
\* fourth, short of the target, with the loop still open
C33_Witness ==
  /\ ReturnedFromLoop
  /\ budget_limit = None
  /\ ~result.goal_reached
  /\ Len(upgrades_made) = 3
  /\ step = 4
  /\ Len(step_history) = 4


(***************************************************************************)
(* The totals of a result                                                  *)
(***************************************************************************)

\* the sum of the r-th cost component over the records of a log
LogCost(log, r) ==
  LET RECURSIVE upto(_)
      upto(k) == IF k = 0 THEN 0 ELSE upto(k - 1) + log[k].cost[r]
  IN  upto(Len(log))

\* C34: the totals of a result agree with its step log: each per-resource total
\* is the sum of that component over the costs of all step records,
\* total_resources_cost is the sum of the three totals and equals the
\* optimizer's total_spent_resources, crafted_items is the number of craft
\* records, and upgrades_count + crafted_items is the length of the step log
C34_TotalsMatchStepLog ==
  ReturnedFromLoop =>
    /\ \A r \in 1..3 : result.resources_needed[r] = LogCost(result.upgrades, r)
    /\ result.total_resources_cost
         = result.resources_needed[1] + result.resources_needed[2]
             + result.resources_needed[3]
    /\ result.total_resources_cost = total_spent_resources
    /\ result.crafted_items = Len(CraftRecords(result.upgrades))
    /\ result.upgrades_count + result.crafted_items = Len(result.upgrades)

\* a returned run that spent on all three resources and crafted an item
C34_Witness ==
  /\ ReturnedFromLoop
  /\ result.resources_needed[1] > 0
  /\ result.resources_needed[2] > 0
  /\ result.resources_needed[3] > 90
  /\ result.crafted_items = 1
  /\ result.upgrades_count >= 3


(***************************************************************************)
(* The 'steps' of a comparison                                             *)
(***************************************************************************)

\* an entry has just been recorded: the optimizer of its run is still in place
JustRecorded == pc \in {"compare", "compared"} /\ comparison # <<>>

\* C35: for each strategy the 'steps' value reported by compare_strategies is
\* the number of actions of that strategy's run, the upgrade and craft step
\* records taken together
C35_StepsCountActions ==
  JustRecorded => comparison[Len(comparison)].steps = Len(upgrades_made)

\* the same for the runs that crafted nothing: there 'steps' is the number of
\* actions; a run that crafted has each craft counted twice
C35_StepsCountCraftsTwice ==
  JustRecorded =>
    comparison[Len(comparison)].steps = Len(upgrades_made) + crafted_items_count


(***************************************************************************)
(* The items given to a run                                                *)
(***************************************************************************)

\* the level the step log leaves item i at: the 'to' of the last record on its
\* slot, else the level the item came with
LevelAfter(log, i) ==
  Then({k \in DOMAIN log : log[k].slot = items[i].slot},
       LAMBDA touched : IF touched = {} THEN items[i].item_level
                                        ELSE log[MaxOf(touched)].to)

\* C36: find_optimal_path never modifies the item records it was given: no
\* step of a run changes the input items' levels or crafted flags, the
\* current_items of the result are those items at their initial levels, and
\* the level changes of the step log appear in final_items only
C36_InputItemsUntouched ==
  [][ /\ items' = items
      /\ (pc' = "done" /\ TargetAlreadyMet) => result'.final_items = items
      /\ (pc' = "done" /\ ~TargetAlreadyMet) =>
           /\ result'.current_items = items
           /\ DOMAIN result'.final_items = DOMAIN items
           /\ \A i \in DOMAIN items :
                /\ result'.final_items[i].slot = items[i].slot
                /\ result'.final_items[i].item_level = LevelAfter(result'.upgrades, i)
                /\ result'.final_items[i].crafted =
                     (items[i].crafted \/ items[i].slot \in crafted_slots')
    ]_vars

\* a returned run upgraded one item and crafted the other: final_items shows
\* the new levels, current_items and the input still the old ones
C36_Witness ==
  /\ ReturnedFromLoop
  /\ Len(items) = 2
  /\ result.current_items = items
  /\ result.final_items[1].item_level > items[1].item_level
  /\ result.final_items[2].item_level > items[2].item_level
  /\ result.final_items[1].crafted /\ ~items[1].crafted
  /\ ~result.final_items[2].crafted


(***************************************************************************)
(* Items that are done                                                     *)
(***************************************************************************)

\* C37: once an item has been crafted no later step, craft or upgrade, has it
\* as its target and its level stays exactly 727, and an item that came with a
\* level of 727 or more is not touched by any step
C37_DoneItemsAreLeftAlone ==
  (pc \in {"loop", "finish", "done"} /\ ~TargetAlreadyMet) =>
    /\ \A k \in DOMAIN upgrades_made :
         upgrades_made[k].type = "crafted" =>
           /\ \A j \in DOMAIN upgrades_made :
                j > k => upgrades_made[j].slot # upgrades_made[k].slot
           /\ upgraded_items[ItemIn(upgrades_made[k].slot)].item_level = 727
    /\ \A i \in DOMAIN items :
         items[i].item_level >= 727 =>
           /\ upgraded_items[i] = items[i]
           /\ \A k \in DOMAIN upgrades_made : upgrades_made[k].slot # items[i].slot

\* a run crafted its first item, went on to upgrade the other, and left an
\* item that came at 730 alone: the crafted item is still the head of the
\* priority list but not the target
C37_Witness ==
  /\ pc = "loop"
  /\ Len(upgrades_made) >= 2
  /\ upgrades_made[1].type = "crafted"
  /\ upgrades_made[2].type = "upgrade"
  /\ get_priority_items_for_upgrade(upgraded_items, current_avg, strategy)[1]
       = ItemIn(upgrades_made[1].slot)

\* a run on a roster with an item at 730 has acted on the other item
C37_ItemAbove727Kept ==
  /\ pc = "done"
  /\ \E i \in DOMAIN items : items[i].item_level >= 727
  /\ Len(upgrades_made) >= 2
====
